---- MODULE Spec2Model ----
(***************************************************************************)
(* Provider resolution in garden-service: the ResolveProviderTask class    *)
(* (resolveDependencies, process, ensurePrepared), the plugin handlers it  *)
(* awaits and the garden object's resolvedProviders memo it consults.      *)
(***************************************************************************)
EXTENDS Integers, Sequences, FiniteSets, TLC

(***************************************************************************)
(* Bounds                                                                  *)
(***************************************************************************)

\* longest list of provider names referenced by one raw config's templates
MaxRefs == 1

\* longest list of provider config fragments of a project
MaxFragments == 3

\* longest array among a project's variables
MaxArrayLen == 2

\* longest environment selector
MaxSelectorLen == 5

\* the environments a raw project declares
MaxEnvironments == 2

\* the legacy inline provider fragments an environment carries
MaxInline == 2

(***************************************************************************)
(* The plugin registry and the project's providers                         *)
(***************************************************************************)

NoBase == "<none>"
NoProvider == [name |-> "<none>"]
NoStatus == [ready |-> FALSE, detail |-> "<none>"]
NoError == [kind |-> "<none>"]
NoConfig == [name |-> "<none>"]
NoCalls == [configureProvider |-> 0, getEnvironmentStatus |-> 0, prepareEnvironment |-> 0]
NoArgs == [force |-> FALSE, status |-> NoStatus, none |-> TRUE]

\* the loaded plugins, keyed by name as keyBy(plugins, "name") keys them
PluginNames == {"a", "b", "c", "base"}

plugins ==
    [p \in PluginNames |->
        CASE p = "base" -> [name |-> "base", base |-> NoBase, dependencies |-> <<>>,
                            configSchema |-> TRUE,
                            required |-> {"x", "y"}, defaults |-> {}, known |-> {"x", "y"},
                            handlers |-> {"getEnvironmentStatus"}]
          [] p = "a"    -> [name |-> "a", base |-> "base", dependencies |-> <<"c">>,
                            configSchema |-> TRUE,
                            required |-> {}, defaults |-> {"x"}, known |-> {"x", "y", "z"},
                            handlers |-> {"getEnvironmentStatus", "prepareEnvironment"}]
          [] p = "b"    -> [name |-> "b", base |-> NoBase, dependencies |-> <<"base">>,
                            configSchema |-> FALSE,
                            required |-> {}, defaults |-> {}, known |-> {},
                            handlers |-> {"getEnvironmentStatus"}]
          [] p = "c"    -> [name |-> "c", base |-> "b", dependencies |-> <<>>,
                            configSchema |-> TRUE,
                            required |-> {"y"}, defaults |-> {}, known |-> {"x", "y", "z"},
                            handlers |-> {}]]

\* the key sets a provider's template-resolved raw config may carry besides its name
RawKeySets == {{"x", "y"}, {"x", "y", "q"}}

\* the key sets of the configs a configureProvider handler may return
ReturnedKeySets == {{}, {"x", "y"}, {"y", "z"}}

\* the provider names a project may configure, in declaration order
ProviderOrder == <<"a", "b", "c">>
ProviderNames == {ProviderOrder[i] : i \in 1..Len(ProviderOrder)}

\* the provider names a template expression may reference ("zz" is configured nowhere)
RefNames == {"a", "c", "zz"}

Range(s) == {s[i] : i \in 1..Len(s)}

\* the duplicate-free lists of referenced provider names, at most MaxRefs long
RefLists ==
    {s \in UNION {[1..k -> RefNames] : k \in 0..MaxRefs} : Cardinality(Range(s)) = Len(s)}

\* a task is a (config name, plugin name) pair: the config and plugin it was constructed with
TaskKeys == ProviderNames \X PluginNames

Name(t) == t[1]
Plugin(t) == plugins[t[2]]

VARIABLES
    rawProviderConfigs,  \* garden.getRawProviderConfigs(): names of the configured providers, in order
    templateRefs,        \* per configured provider: getProviderTemplateReferences(config)
    forceInit,           \* the forceInit parameter every task of the run carries
    resolvedProviders,   \* garden.resolvedProviders, the memo: provider name -> Provider
    tasks,               \* the ResolveProviderTask instances constructed so far
    stage,               \* per task: how far the task has come
    subTasks,            \* per task: what resolveDependencies() returned
    resolvedConfig,      \* per task: process()'s resolvedConfig
    tmpProvider,         \* per task: process()'s tmpProvider
    status,              \* per task: ensurePrepared()'s status
    output,              \* per task: the Provider process() returned
    error,               \* per task: the error resolveDependencies()/process() threw
    calls,               \* per task: how often each plugin handler has been invoked
    configureArgs,       \* per task: the config last passed to configureProvider
    configureReturned,   \* per task: the config the configureProvider handler returned
    statusReturned,      \* per task: what the getEnvironmentStatus handler returned
    prepareArgs,         \* per task: the {force, status} last passed to prepareEnvironment
    prepareReturned,     \* per task: the status the prepareEnvironment handler returned
    raised,              \* per task: the error a plugin handler raised
    projectConfig,       \* the ProjectConfig pickEnvironment is called with
    envString,           \* the environment selector pickEnvironment is called with
    varfiles,            \* the varfiles on disk: path -> lines
    picked,              \* what pickEnvironment returned or threw
    parsed,              \* what parseEnvironment, called on its own, returned or threw
    rawProject,          \* the raw ProjectConfig resolveProjectConfig is called with
    resolvedProject      \* what resolveProjectConfig returned

vars == <<rawProviderConfigs, templateRefs, forceInit, resolvedProviders, tasks, stage,
          subTasks, resolvedConfig, tmpProvider, status, output, error, calls,
          configureArgs, configureReturned, statusReturned, prepareArgs, prepareReturned,
          raised, projectConfig, envString, varfiles, picked, parsed, rawProject,
          resolvedProject>>

envVars == <<projectConfig, envString, varfiles, picked, parsed>>

projectVars == <<rawProject, resolvedProject>>

providerVars == <<rawProviderConfigs, templateRefs, forceInit, resolvedProviders, tasks, stage,
                  subTasks, resolvedConfig, tmpProvider, status, output, error, calls,
                  configureArgs, configureReturned, statusReturned, prepareArgs,
                  prepareReturned, raised>>

inputVars == <<rawProviderConfigs, templateRefs, forceInit>>
handlerVars == <<calls, configureArgs, configureReturned, statusReturned, prepareArgs,
                 prepareReturned, raised>>

(***************************************************************************)
(* Plugin inheritance                                                      *)
(***************************************************************************)

RECURSIVE getPluginBases(_)
\* the ancestors of a plugin, nearest base first
getPluginBases(plugin) ==
    IF plugin.base = NoBase THEN <<>>
    ELSE <<plugin.base>> \o getPluginBases(plugins[plugin.base])

getPluginBaseNames(name) == getPluginBases(plugins[name])

(***************************************************************************)
(* resolveDependencies()                                                   *)
(***************************************************************************)

explicitDeps(t) == Plugin(t).dependencies

implicitDeps(t) ==
    SelectSeq(templateRefs[Name(t)], LAMBDA depName : depName \notin Range(explicitDeps(t)))

allDeps(t) == explicitDeps(t) \o implicitDeps(t)

\* the inheritance chain is walked the wrong way: the bases of depName match
matchDependencies_BasesOfDep(depName) ==
    SelectSeq(rawProviderConfigs,
              LAMBDA c : \/ c = depName
                         \/ depName \in PluginNames /\ c \in Range(getPluginBaseNames(depName)))

\* the configured providers named depName or inheriting from a base named depName
matchDependencies(depName) ==
    SelectSeq(rawProviderConfigs,
              LAMBDA c : c = depName \/ depName \in Range(getPluginBaseNames(c)))

\* the check looks the dependency up among the loaded plugins, not the configured providers
MissingExplicitDeps_AmongPlugins(t) ==
    {depName \in Range(explicitDeps(t)) : depName \notin PluginNames}

\* the explicit dependencies for which the "is not configured" check throws
MissingExplicitDeps(t) ==
    {depName \in Range(explicitDeps(t)) : Len(matchDependencies(depName)) = 0}

\* one new task per matched config, constructed with plugin = plugins[depName]
TasksForDep(depName) ==
    [i \in 1..Len(matchDependencies(depName)) |-> <<matchDependencies(depName)[i], depName>>]

RECURSIVE flatten(_)
flatten(lists) ==
    IF lists = <<>> THEN <<>> ELSE Head(lists) \o flatten(Tail(lists))

SubTasksOf(t) == flatten([i \in 1..Len(allDeps(t)) |-> TasksForDep(allDeps(t)[i])])

\* resolveDependencies() throws: an explicit dependency matches no configured provider
ResolveDependenciesThrow(t) ==
    /\ t \in tasks
    /\ stage[t] = "Pending"
    /\ \E depName \in MissingExplicitDeps(t) :
          error' = [error EXCEPT ![t] = [kind |-> "ConfigurationError",
                                         provider |-> Name(t),
                                         missingProviderName |-> depName]]
    /\ stage' = [stage EXCEPT ![t] = "Failed"]
    /\ UNCHANGED <<envVars, projectVars, inputVars, handlerVars, resolvedProviders, tasks, subTasks,
                   resolvedConfig, tmpProvider, status, output>>

\* resolveDependencies() returns the sub-tasks
ResolveDependencies(t) ==
    /\ t \in tasks
    /\ stage[t] = "Pending"
    /\ MissingExplicitDeps(t) = {}
    /\ subTasks' = [subTasks EXCEPT ![t] = SubTasksOf(t)]
    /\ tasks' = tasks \cup Range(SubTasksOf(t))
    /\ stage' = [stage EXCEPT ![t] = "DependenciesResolving"]
    /\ UNCHANGED <<envVars, projectVars, inputVars, handlerVars, resolvedProviders, resolvedConfig, tmpProvider,
                   status, output, error>>

(***************************************************************************)
(* The scheduler and the collaborators process() calls                     *)
(***************************************************************************)

\* the task graph invokes process() once every sub-task has produced its result
SchedulerMayRun(t) ==
    /\ t \in tasks
    /\ stage[t] = "DependenciesResolving"
    /\ \A k \in Range(subTasks[t]) : stage[k] = "Ready"

\* Object.values(dependencyResults).map((result) => result && result.output)
DependencyProviders(t) ==
    {[name |-> output[k].name, ref |-> output[k].ref] : k \in Range(subTasks[t])}

\* resolveTemplateStrings fails on a reference to a provider the context does not hold
TemplateStringsFail(t) ==
    \E r \in Range(templateRefs[Name(t)]) :
        r \notin {d.name : d \in DependencyProviders(t)}

\* getActionHandler falls back to defaultHandler when the plugin declares no handler
HasHandler(pluginName, actionType) == actionType \in plugins[pluginName].handlers

(***************************************************************************)
(* Schemas and validation.  A config is its name, the set of keys it       *)
(* carries and whether it has a path.  <<p, "strict">> is plugin p's       *)
(* configSchema, <<p, "unknown">> is p's configSchema.unknown(true).  A    *)
(* schema requires keys, fills in its defaults and, unless unknown keys    *)
(* are accepted, rejects the keys it does not know.                        *)
(***************************************************************************)

JoiObject == <<"joi", "object">>

\* the plugin's configSchema is ignored: every config is validated against joi.object()
OwnSchema_AlwaysObject(t) == JoiObject

\* this.plugin.configSchema || joi.object()
OwnSchema(t) == IF Plugin(t).configSchema THEN <<t[2], "strict">> ELSE JoiObject

\* the loop over the bases is skipped
BaseSchemas_None(t) == <<>>

\* the base plugins whose schema the loop validates against, in order
BaseSchemas(t) ==
    LET bases == SelectSeq(getPluginBases(Plugin(t)), LAMBDA b : plugins[b].configSchema)
    IN  [i \in 1..Len(bases) |-> <<bases[i], "unknown">>]

\* the keys a schema fills in when the config lacks them
Defaults(schema) == IF schema = JoiObject THEN {} ELSE plugins[schema[1]].defaults

Accepts(schema, config) ==
    IF schema = JoiObject THEN TRUE
    ELSE /\ plugins[schema[1]].required \subseteq (config.keys \cup Defaults(schema))
         /\ schema[2] = "strict" => config.keys \subseteq plugins[schema[1]].known

\* validateWithPath({ config: omit(config, "path"), schema, ... }): the validated value
\* has the schema's defaults and no path
validateWithPath(config, schema) ==
    [config EXCEPT !.keys = @ \cup Defaults(schema), !.path = FALSE]

\* validateConfig(config) followed by resolvedConfig.path = this.garden.projectRoot
validateConfig(t, config) ==
    [validateWithPath(config, OwnSchema(t)) EXCEPT !.path = TRUE]

RECURSIVE validateBases(_, _)
\* the loop over the bases: each round replaces resolvedConfig by the validated value
validateBases(config, schemas) ==
    IF schemas = <<>> THEN config
    ELSE validateBases(validateWithPath(config, Head(schemas)), Tail(schemas))

defaultEnvironmentStatus == [ready |-> TRUE, detail |-> "default"]

providerFromConfig(t, config, dependencies, st) ==
    [name |-> config.name, config |-> config, dependencies |-> dependencies,
     status |-> st, ref |-> t]

(***************************************************************************)
(* process()                                                               *)
(***************************************************************************)

\* the early return is missing: the memo is never consulted
AlreadyResolved_NeverConsulted(t) == FALSE

\* this.garden["resolvedProviders"][this.config.name] is set
AlreadyResolved(t) == resolvedProviders[Name(t)] # NoProvider

\* process() finds the provider in the memo and returns it
ProcessMemoized(t) ==
    /\ SchedulerMayRun(t)
    /\ AlreadyResolved(t)
    /\ output' = [output EXCEPT ![t] = resolvedProviders[Name(t)]]
    /\ stage' = [stage EXCEPT ![t] = "Ready"]
    /\ UNCHANGED <<envVars, projectVars, inputVars, handlerVars, resolvedProviders, tasks, subTasks,
                   resolvedConfig, tmpProvider, status, error>>

\* process() fails while resolving the template strings of the raw config
ProcessTemplateThrow(t) ==
    /\ SchedulerMayRun(t)
    /\ ~AlreadyResolved(t)
    /\ TemplateStringsFail(t)
    /\ error' = [error EXCEPT ![t] = [kind |-> "TemplateStringError", provider |-> Name(t)]]
    /\ stage' = [stage EXCEPT ![t] = "Failed"]
    /\ UNCHANGED <<envVars, projectVars, inputVars, handlerVars, resolvedProviders, tasks, subTasks,
                   resolvedConfig, tmpProvider, status, output>>

\* process() fails validating the template-resolved config against the plugin's schema
ProcessValidateThrow(t) ==
    /\ SchedulerMayRun(t)
    /\ ~AlreadyResolved(t)
    /\ ~TemplateStringsFail(t)
    /\ \E keys \in RawKeySets :
          LET config == [name |-> Name(t), keys |-> keys, path |-> FALSE]
          IN  /\ ~Accepts(OwnSchema(t), config)
              /\ error' = [error EXCEPT ![t] = [kind |-> "ConfigurationError",
                                                 provider |-> Name(t),
                                                 schema |-> OwnSchema(t)]]
    /\ stage' = [stage EXCEPT ![t] = "Failed"]
    /\ UNCHANGED <<envVars, projectVars, inputVars, handlerVars, resolvedProviders, tasks, subTasks,
                   resolvedConfig, tmpProvider, status, output>>

\* process() validates the config and invokes the configureProvider handler with it
ProcessConfigure(t) ==
    /\ SchedulerMayRun(t)
    /\ ~AlreadyResolved(t)
    /\ ~TemplateStringsFail(t)
    /\ \E keys \in RawKeySets :
          LET config == [name |-> Name(t), keys |-> keys, path |-> FALSE]
          IN  /\ Accepts(OwnSchema(t), config)
              /\ resolvedConfig' = [resolvedConfig EXCEPT ![t] = validateConfig(t, config)]
              /\ configureArgs' = [configureArgs EXCEPT ![t] = validateConfig(t, config)]
    /\ calls' = [calls EXCEPT ![t].configureProvider = @ + 1]
    /\ stage' = [stage EXCEPT ![t] = "Configuring"]
    /\ UNCHANGED <<envVars, projectVars, inputVars, resolvedProviders, tasks, subTasks, tmpProvider, status, output,
                   error, configureReturned, statusReturned, prepareArgs, prepareReturned,
                   raised>>

\* the error a plugin handler raises
HandlerError(t, actionType) ==
    [kind |-> "HandlerError", handler |-> actionType, provider |-> Name(t)]

\* process() catches the handler's error and throws a PluginError of its own
ConfigureProviderRaise_Wrapped(t) ==
    /\ t \in tasks
    /\ stage[t] = "Configuring"
    /\ raised' = [raised EXCEPT ![t] = HandlerError(t, "configureProvider")]
    /\ error' = [error EXCEPT ![t] = [kind |-> "PluginError", name |-> Name(t),
                                       status |-> NoStatus, provider |-> t]]
    /\ stage' = [stage EXCEPT ![t] = "Failed"]
    /\ UNCHANGED <<envVars, projectVars, inputVars, resolvedProviders, tasks, subTasks, resolvedConfig, status,
                   output, tmpProvider, calls, configureArgs, configureReturned, statusReturned,
                   prepareArgs, prepareReturned>>

\* the configureProvider handler raises: process() rejects with that error
ConfigureProviderRaise(t) ==
    /\ t \in tasks
    /\ stage[t] = "Configuring"
    /\ raised' = [raised EXCEPT ![t] = HandlerError(t, "configureProvider")]
    /\ error' = [error EXCEPT ![t] = HandlerError(t, "configureProvider")]
    /\ stage' = [stage EXCEPT ![t] = "Failed"]
    /\ UNCHANGED <<envVars, projectVars, inputVars, resolvedProviders, tasks, subTasks, resolvedConfig, status,
                   output, tmpProvider, calls, configureArgs, configureReturned, statusReturned,
                   prepareArgs, prepareReturned>>

RECURSIVE FirstRejectingBase(_, _)
\* the first base schema that rejects the config the preceding validation handed on
FirstRejectingBase(config, schemas) ==
    IF schemas = <<>> THEN JoiObject
    ELSE IF ~Accepts(Head(schemas), config) THEN Head(schemas)
    ELSE FirstRejectingBase(validateWithPath(config, Head(schemas)), Tail(schemas))

\* the first schema, own schema first and then the bases in order, that rejects the config
FirstRejecting(t, config) ==
    IF ~Accepts(OwnSchema(t), config) THEN OwnSchema(t)
    ELSE FirstRejectingBase(validateConfig(t, config), BaseSchemas(t))

\* the configureProvider handler returns a config that one of the validations rejects
ConfigureProviderReturnInvalid(t) ==
    /\ t \in tasks
    /\ stage[t] = "Configuring"
    /\ \E keys \in ReturnedKeySets :
          LET config == [name |-> Name(t), keys |-> keys, path |-> FALSE]
          IN  /\ FirstRejecting(t, config) # JoiObject
              /\ configureReturned' = [configureReturned EXCEPT ![t] = config]
              /\ error' = [error EXCEPT ![t] = [kind |-> "ConfigurationError",
                                                 provider |-> Name(t),
                                                 schema |-> FirstRejecting(t, config)]]
    /\ stage' = [stage EXCEPT ![t] = "Failed"]
    /\ UNCHANGED <<envVars, projectVars, inputVars, resolvedProviders, tasks, subTasks, resolvedConfig, status,
                   output, tmpProvider, calls, configureArgs, statusReturned, prepareArgs,
                   prepareReturned, raised>>

\* the configureProvider handler returns a config that passes every validation;
\* process() builds tmpProvider and ensurePrepared() invokes the status handler
ConfigureProviderReturn(t) ==
    /\ t \in tasks
    /\ stage[t] = "Configuring"
    /\ \E keys \in ReturnedKeySets :
          LET config == [name |-> Name(t), keys |-> keys, path |-> FALSE]
              validated == validateBases(validateConfig(t, config), BaseSchemas(t))
          IN  /\ FirstRejecting(t, config) = JoiObject
              /\ configureReturned' = [configureReturned EXCEPT ![t] = config]
              /\ resolvedConfig' = [resolvedConfig EXCEPT ![t] = validated]
              /\ tmpProvider' = [tmpProvider EXCEPT ![t] =
                     providerFromConfig(t, validated, DependencyProviders(t),
                                        defaultEnvironmentStatus)]
    /\ calls' = [calls EXCEPT ![t].getEnvironmentStatus = @ + 1]
    /\ stage' = [stage EXCEPT ![t] = "Checking"]
    /\ UNCHANGED <<envVars, projectVars, inputVars, resolvedProviders, tasks, subTasks, status, output, error,
                   configureArgs, statusReturned, prepareArgs, prepareReturned, raised>>

(***************************************************************************)
(* ensurePrepared()                                                        *)
(***************************************************************************)

\* what the status handler may return: the plugin's answer, or the default handler's
StatusResults(t) ==
    IF HasHandler(tmpProvider[t].name, "getEnvironmentStatus")
    THEN {[ready |-> r, detail |-> "checked"] : r \in BOOLEAN}
    ELSE {defaultEnvironmentStatus}

\* the default prepare handler reports the environment ready
PrepareResults_DefaultReady(t) ==
    IF HasHandler(tmpProvider[t].name, "prepareEnvironment")
    THEN {[ready |-> r, detail |-> "prepared"] : r \in BOOLEAN}
    ELSE {defaultEnvironmentStatus}

\* what the prepare handler may return: the plugin's answer, or the default handler's { status }
PrepareResults(t) ==
    IF HasHandler(tmpProvider[t].name, "prepareEnvironment")
    THEN {[ready |-> r, detail |-> "prepared"] : r \in BOOLEAN}
    ELSE {status[t]}

\* the forceInit flag is forgotten
NeedsPrepare_IgnoresForceInit(st) == ~st.ready

\* if (this.forceInit || !status.ready)
NeedsPrepare(st) == forceInit \/ ~st.ready

\* the final readiness check is missing
NotReady_Unchecked(st) == FALSE

\* if (!status.ready) throw new PluginError(...)
NotReady(st) == ~st.ready

PluginError(t, st) ==
    [kind |-> "PluginError", name |-> tmpProvider[t].name, status |-> st,
     provider |-> tmpProvider[t].ref]

\* the Provider is written to the memo before the final readiness check
Conclude_StoresFirst(t, st) ==
    /\ status' = [status EXCEPT ![t] = st]
    /\ resolvedProviders' = [resolvedProviders EXCEPT ![Name(t)] =
           providerFromConfig(t, resolvedConfig[t], DependencyProviders(t), st)]
    /\ IF NotReady(st)
       THEN /\ error' = [error EXCEPT ![t] = PluginError(t, st)]
            /\ stage' = [stage EXCEPT ![t] = "Failed"]
            /\ UNCHANGED output
       ELSE /\ output' = [output EXCEPT ![t] =
                   providerFromConfig(t, resolvedConfig[t], DependencyProviders(t), st)]
            /\ stage' = [stage EXCEPT ![t] = "Ready"]
            /\ UNCHANGED error

\* process() returns the temporary Provider instead of one built with the final status
Conclude_ReturnsTmpProvider(t, st) ==
    /\ status' = [status EXCEPT ![t] = st]
    /\ UNCHANGED resolvedProviders
    /\ IF NotReady(st)
       THEN /\ error' = [error EXCEPT ![t] = PluginError(t, st)]
            /\ stage' = [stage EXCEPT ![t] = "Failed"]
            /\ UNCHANGED output
       ELSE /\ output' = [output EXCEPT ![t] = tmpProvider[t]]
            /\ stage' = [stage EXCEPT ![t] = "Ready"]
            /\ UNCHANGED error

\* ensurePrepared() returns st and process() returns the Provider, or it throws the PluginError
Conclude(t, st) ==
    /\ status' = [status EXCEPT ![t] = st]
    /\ UNCHANGED resolvedProviders
    /\ IF NotReady(st)
       THEN /\ error' = [error EXCEPT ![t] = PluginError(t, st)]
            /\ stage' = [stage EXCEPT ![t] = "Failed"]
            /\ UNCHANGED output
       ELSE /\ output' = [output EXCEPT ![t] =
                   providerFromConfig(t, resolvedConfig[t], DependencyProviders(t), st)]
            /\ stage' = [stage EXCEPT ![t] = "Ready"]
            /\ UNCHANGED error

\* the status handler returns; the prepare handler is invoked if needed
StatusReturn(t) ==
    /\ t \in tasks
    /\ stage[t] = "Checking"
    /\ \E st \in StatusResults(t) :
          /\ statusReturned' = [statusReturned EXCEPT ![t] = st]
          /\ IF NeedsPrepare(st)
             THEN /\ status' = [status EXCEPT ![t] = st]
                  /\ UNCHANGED resolvedProviders
                  /\ prepareArgs' = [prepareArgs EXCEPT ![t] =
                         [force |-> forceInit, status |-> st, none |-> FALSE]]
                  /\ calls' = [calls EXCEPT ![t].prepareEnvironment = @ + 1]
                  /\ stage' = [stage EXCEPT ![t] = "Preparing"]
                  /\ UNCHANGED <<output, error>>
             ELSE /\ Conclude(t, st)
                  /\ UNCHANGED <<prepareArgs, calls>>
    /\ UNCHANGED <<envVars, projectVars, inputVars, tasks, subTasks, resolvedConfig, tmpProvider, configureArgs,
                   configureReturned, prepareReturned, raised>>

\* the status handler raises
StatusRaise(t) ==
    /\ t \in tasks
    /\ stage[t] = "Checking"
    /\ HasHandler(tmpProvider[t].name, "getEnvironmentStatus")
    /\ raised' = [raised EXCEPT ![t] = HandlerError(t, "getEnvironmentStatus")]
    /\ error' = [error EXCEPT ![t] = HandlerError(t, "getEnvironmentStatus")]
    /\ stage' = [stage EXCEPT ![t] = "Failed"]
    /\ UNCHANGED <<envVars, projectVars, inputVars, resolvedProviders, tasks, subTasks, resolvedConfig, status,
                   output, tmpProvider, calls, configureArgs, configureReturned, statusReturned,
                   prepareArgs, prepareReturned>>

\* the prepare handler returns: status = result.status
PrepareReturn(t) ==
    /\ t \in tasks
    /\ stage[t] = "Preparing"
    /\ \E st \in PrepareResults(t) :
          /\ prepareReturned' = [prepareReturned EXCEPT ![t] = st]
          /\ Conclude(t, st)
    /\ UNCHANGED <<envVars, projectVars, inputVars, tasks, subTasks, resolvedConfig, tmpProvider, calls,
                   configureArgs, configureReturned, statusReturned, prepareArgs, raised>>

\* the prepare handler raises
PrepareRaise(t) ==
    /\ t \in tasks
    /\ stage[t] = "Preparing"
    /\ HasHandler(tmpProvider[t].name, "prepareEnvironment")
    /\ raised' = [raised EXCEPT ![t] = HandlerError(t, "prepareEnvironment")]
    /\ error' = [error EXCEPT ![t] = HandlerError(t, "prepareEnvironment")]
    /\ stage' = [stage EXCEPT ![t] = "Failed"]
    /\ UNCHANGED <<envVars, projectVars, inputVars, resolvedProviders, tasks, subTasks, resolvedConfig, status,
                   output, tmpProvider, calls, configureArgs, configureReturned, statusReturned,
                   prepareArgs, prepareReturned>>

(***************************************************************************)
(* The memo's writer                                                       *)
(***************************************************************************)

\* Garden records a task's Provider in resolvedProviders, once per provider name
GardenStore(t) ==
    /\ t \in tasks
    /\ stage[t] = "Ready"
    /\ resolvedProviders[Name(t)] = NoProvider
    /\ resolvedProviders' = [resolvedProviders EXCEPT ![Name(t)] = output[t]]
    /\ UNCHANGED <<envVars, projectVars, inputVars, handlerVars, tasks, stage, subTasks, resolvedConfig, status,
                   output, error, tmpProvider>>

\* the task graph gives up a task one of whose dependencies has failed: its
\* process() is never invoked
DependencyFailed(t) ==
    /\ t \in tasks
    /\ stage[t] = "DependenciesResolving"
    /\ \E k \in Range(subTasks[t]) :
          /\ stage[k] = "Failed"
          /\ error' = [error EXCEPT ![t] = [kind |-> "DependencyError", dependency |-> k]]
    /\ stage' = [stage EXCEPT ![t] = "Failed"]
    /\ UNCHANGED <<envVars, projectVars, inputVars, handlerVars, resolvedProviders, tasks, subTasks,
                   resolvedConfig, tmpProvider, status, output>>

(***************************************************************************)
(* Values of configs and variables: strings, null, mappings and arrays     *)
(***************************************************************************)

Str(s) == [t |-> "str", v |-> s]
Null == [t |-> "null"]
Obj(m) == [t |-> "obj", m |-> m]
Arr(s) == [t |-> "arr", s |-> s]

NoKeys == <<>>

\* the mapping holding the given keys of m
Pick(m, keys) == [k \in keys |-> m[k]]

(***************************************************************************)
(* pickEnvironment(): the provider configs                                 *)
(***************************************************************************)

\* a null in a patch is stored like any other value instead of deleting the key
mergePatch_KeepsNull(target, patch) ==
    IF patch.t # "obj" THEN patch
    ELSE LET base == IF target.t = "obj" THEN target.m ELSE NoKeys
         IN  Obj([k \in DOMAIN base \cup DOMAIN patch.m |->
                    IF k \in DOMAIN patch.m THEN patch.m[k] ELSE base[k]])

RECURSIVE mergePatch(_, _)
\* JSON Merge Patch: a patch that is no mapping replaces the target; a mapping is
\* applied key by key, a null deleting the key
mergePatch(target, patch) ==
    IF patch.t # "obj" THEN patch
    ELSE LET base == IF target.t = "obj" THEN target.m ELSE NoKeys
             kept == (DOMAIN base \ DOMAIN patch.m)
                         \cup {k \in DOMAIN patch.m : patch.m[k].t # "null"}
         IN  Obj([k \in kept |->
                    IF k \notin DOMAIN patch.m THEN base[k]
                    ELSE mergePatch(IF k \in DOMAIN base THEN base[k] ELSE Null,
                                    patch.m[k])])

\* the built-in providers every environment gets, in this order
fixedProviders == <<Obj([name |-> Str("exec")]), Obj([name |-> Str("container")])>>

\* the fragment has no environments list, or one that contains the environment
AppliesTo(fragment, environment) ==
    \/ "environments" \notin DOMAIN fragment.m
    \/ \E i \in 1..Len(fragment.m.environments.s) :
          fragment.m.environments.s[i] = Str(environment)

\* the built-in providers are put behind the declared fragments
allProviders_FixedLast(providers, environment) ==
    SelectSeq(providers, LAMBDA f : AppliesTo(f, environment)) \o fixedProviders

\* the built-in providers followed by the fragments that apply to the environment
allProviders(providers, environment) ==
    fixedProviders \o SelectSeq(providers, LAMBDA f : AppliesTo(f, environment))

RECURSIVE mergeProviders(_, _)
\* the first entry of a name is taken as it is, every later one is applied to it as a patch
mergeProviders(merged, rest) ==
    IF rest = <<>> THEN merged
    ELSE LET provider == Head(rest)
             same == {i \in 1..Len(merged) : merged[i].m.name = provider.m.name}
         IN  IF same = {} THEN mergeProviders(Append(merged, provider), Tail(rest))
             ELSE mergeProviders([i \in 1..Len(merged) |->
                                     IF i \in same THEN mergePatch(merged[i], provider)
                                     ELSE merged[i]],
                                 Tail(rest))

(***************************************************************************)
(* pickEnvironment(): the variables                                        *)
(***************************************************************************)

Longer(a, b) == IF Len(a) >= Len(b) THEN Len(a) ELSE Len(b)

RECURSIVE mergeValue_ArraysReplaced(_, _)
\* arrays are not merged by position: the later array replaces the earlier one
mergeValue_ArraysReplaced(earlier, later) ==
    IF earlier.t = "obj" /\ later.t = "obj"
    THEN Obj([k \in DOMAIN earlier.m \cup DOMAIN later.m |->
                 IF k \notin DOMAIN later.m THEN earlier.m[k]
                 ELSE IF k \notin DOMAIN earlier.m THEN later.m[k]
                 ELSE mergeValue_ArraysReplaced(earlier.m[k], later.m[k])])
    ELSE later

RECURSIVE mergeValue(_, _)
\* the deep merge of a later value into an earlier one: mappings key by key,
\* arrays element by element, anything else replaced by the later value
mergeValue(earlier, later) ==
    IF earlier.t = "obj" /\ later.t = "obj"
    THEN Obj([k \in DOMAIN earlier.m \cup DOMAIN later.m |->
                 IF k \notin DOMAIN later.m THEN earlier.m[k]
                 ELSE IF k \notin DOMAIN earlier.m THEN later.m[k]
                 ELSE mergeValue(earlier.m[k], later.m[k])])
    ELSE IF earlier.t = "arr" /\ later.t = "arr"
    THEN Arr([i \in 1..Longer(earlier.s, later.s) |->
                 IF i > Len(later.s) THEN earlier.s[i]
                 ELSE IF i > Len(earlier.s) THEN later.s[i]
                 ELSE mergeValue(earlier.s[i], later.s[i])])
    ELSE later

RECURSIVE mergeVariables_FirstWins(_)
\* the sources are merged the other way round: an earlier source overrides a later one
mergeVariables_FirstWins(sources) ==
    IF sources = <<>> THEN Obj(NoKeys)
    ELSE mergeValue(mergeVariables_FirstWins(Tail(sources)), Head(sources))

RECURSIVE mergeVariables(_)
\* the merge of the sources, lowest precedence first
mergeVariables(sources) ==
    IF sources = <<>> THEN Obj(NoKeys)
    ELSE IF Len(sources) = 1 THEN mergeValue(Obj(NoKeys), sources[1])
    ELSE mergeValue(mergeVariables(SubSeq(sources, 1, Len(sources) - 1)),
                    sources[Len(sources)])

defaultVarfilePath == <<"garden", "env">>
defaultEnvVarfilePath(environment) == <<"garden", environment, "env">>

\* the mapping a varfile's key=value lines stand for
parseVarfile(lines) ==
    Obj([k \in {lines[i][1] : i \in 1..Len(lines)} |->
            Str(lines[CHOOSE i \in 1..Len(lines) :
                          /\ lines[i][1] = k
                          /\ \A j \in 1..Len(lines) : lines[j][1] = k => j <= i][2])])

\* a missing file never is an error
loadVarfile_MissingIsEmpty(path, defaultPath) ==
    IF path \in DOMAIN varfiles THEN [ok |-> TRUE, vars |-> parseVarfile(varfiles[path])]
    ELSE [ok |-> TRUE, vars |-> Obj(NoKeys)]

\* the varfile's variables; a missing file is an error unless the path is the default one
loadVarfile(path, defaultPath) ==
    IF path \in DOMAIN varfiles THEN [ok |-> TRUE, vars |-> parseVarfile(varfiles[path])]
    ELSE IF path = defaultPath THEN [ok |-> TRUE, vars |-> Obj(NoKeys)]
    ELSE [ok |-> FALSE, path |-> path]

(***************************************************************************)
(* parseEnvironment() and pickEnvironment()                                *)
(***************************************************************************)

\* the characters selectors are written in, and those a name may consist of
Chars == {"e", "n", ".", "$"}
NameChars == {"e", "n"}

NoNamespace == <<>>
NoResult == [kind |-> "<none>"]

\* every segment that is not empty passes
validName_AnyCharacters(segment) == Len(segment) > 0

validName(segment) ==
    /\ Len(segment) > 0
    /\ \A i \in 1..Len(segment) : segment[i] \in NameChars

\* env.split("."): a selector without "." is the environment, with one "."
\* namespace and environment; anything else is rejected
parseEnvironment(env) ==
    LET dots == {i \in 1..Len(env) : env[i] = "."}
    IN  IF Cardinality(dots) > 1
        THEN [ok |-> FALSE, problem |-> "may only contain a single delimiter"]
        ELSE IF dots = {}
        THEN IF validName(env)
             THEN [ok |-> TRUE, environment |-> env, namespace |-> NoNamespace]
             ELSE [ok |-> FALSE, problem |-> "must be a valid environment name or <namespace>.<environment>"]
        ELSE LET d == CHOOSE i \in dots : TRUE
                 first == SubSeq(env, 1, d - 1)
                 second == SubSeq(env, d + 1, Len(env))
             IN  IF validName(first) /\ validName(second)
                 THEN [ok |-> TRUE, environment |-> second, namespace |-> first]
                 ELSE [ok |-> FALSE, problem |-> "must be a valid environment name or <namespace>.<environment>"]

\* findByName(environments, environment)
findByName(environments, name) ==
    SelectSeq(environments, LAMBDA e : e.name = name)

\* the selected environment's config; only used where the environment is configured
EnvironmentConfig ==
    findByName(projectConfig.environments, parseEnvironment(envString).environment)[1]

\* the selector parses and names a configured environment
Selected ==
    /\ parseEnvironment(envString).ok
    /\ findByName(projectConfig.environments, parseEnvironment(envString).environment) # <<>>

\* only the "required" policy is enforced
NamespacingProblem_RequiredOnly ==
    IF /\ EnvironmentConfig.namespacing = "required"
       /\ parseEnvironment(envString).namespace = NoNamespace
    THEN "requires a namespace, but none was specified"
    ELSE "<none>"

\* the selector goes against the environment's namespacing policy
NamespacingProblem ==
    LET namespace == parseEnvironment(envString).namespace
    IN  IF EnvironmentConfig.namespacing = "required" /\ namespace = NoNamespace
        THEN "requires a namespace, but none was specified"
        ELSE IF EnvironmentConfig.namespacing = "disabled" /\ namespace # NoNamespace
        THEN "does not allow namespacing, but namespace was specified"
        ELSE "<none>"

projectVarfileVars == loadVarfile(projectConfig.varfile, defaultVarfilePath)
envVarfileVars ==
    loadVarfile(EnvironmentConfig.varfile, defaultEnvVarfilePath(EnvironmentConfig.name))

\* parseEnvironment() called on its own
ParseEnvironment ==
    /\ parsed = NoResult
    /\ parsed' = IF parseEnvironment(envString).ok
                 THEN [kind |-> "ok",
                       environment |-> parseEnvironment(envString).environment,
                       namespace |-> parseEnvironment(envString).namespace]
                 ELSE [kind |-> "ConfigurationError", selector |-> envString,
                       message |-> parseEnvironment(envString).problem]
    /\ UNCHANGED <<providerVars, projectVars, projectConfig, envString, varfiles, picked>>

\* the selector is no valid selector
PickEnvironmentInvalid ==
    /\ picked = NoResult
    /\ ~parseEnvironment(envString).ok
    /\ picked' = [kind |-> "ConfigurationError", selector |-> envString,
                  message |-> parseEnvironment(envString).problem]
    /\ UNCHANGED <<providerVars, projectVars, projectConfig, envString, varfiles, parsed>>

\* the selected environment is not configured
PickEnvironmentUnknown ==
    /\ picked = NoResult
    /\ parseEnvironment(envString).ok
    /\ ~Selected
    /\ picked' = [kind |-> "ParameterError",
                  environment |-> parseEnvironment(envString).environment]
    /\ UNCHANGED <<providerVars, projectVars, projectConfig, envString, varfiles, parsed>>

\* the selector goes against the namespacing policy
PickEnvironmentNamespacing ==
    /\ picked = NoResult
    /\ Selected
    /\ NamespacingProblem # "<none>"
    /\ picked' = [kind |-> "ConfigurationError", environment |-> EnvironmentConfig.name,
                  namespace |-> parseEnvironment(envString).namespace,
                  message |-> NamespacingProblem]
    /\ UNCHANGED <<providerVars, projectVars, projectConfig, envString, varfiles, parsed>>

\* a varfile configured at another path than the default one does not exist
PickEnvironmentVarfileMissing ==
    /\ picked = NoResult
    /\ Selected
    /\ NamespacingProblem = "<none>"
    /\ ~projectVarfileVars.ok \/ ~envVarfileVars.ok
    /\ picked' = [kind |-> "ConfigurationError",
                  message |-> "Could not find varfile at path",
                  path |-> IF ~projectVarfileVars.ok THEN projectVarfileVars.path
                           ELSE envVarfileVars.path]
    /\ UNCHANGED <<providerVars, projectVars, projectConfig, envString, varfiles, parsed>>

\* pickEnvironment() returns the resolved environment
PickEnvironment ==
    /\ picked = NoResult
    /\ Selected
    /\ NamespacingProblem = "<none>"
    /\ projectVarfileVars.ok
    /\ envVarfileVars.ok
    /\ picked' = [kind |-> "ok",
                  environmentName |-> EnvironmentConfig.name,
                  namespace |-> parseEnvironment(envString).namespace,
                  production |-> EnvironmentConfig.production,
                  providers |-> mergeProviders(<<>>, allProviders(projectConfig.providers,
                                                                  EnvironmentConfig.name)),
                  variables |-> mergeVariables(<<projectConfig.variables,
                                                 projectVarfileVars.vars,
                                                 EnvironmentConfig.variables,
                                                 envVarfileVars.vars>>)]
    /\ UNCHANGED <<providerVars, projectVars, projectConfig, envString, varfiles, parsed>>

(***************************************************************************)
(* resolveProjectConfig()                                                  *)
(***************************************************************************)

\* the name of the environment that is injected where none is declared
LocalName == <<"l", "o", "c", "a", "l">>

\* the values the schema gives the keys an environment leaves out
environmentDefaults ==
    [namespacing |-> "optional", production |-> FALSE, providers |-> <<>>,
     variables |-> Obj(NoKeys)]

defaultEnvironments == <<[name |-> LocalName] @@ environmentDefaults>>

\* the legacy inline fragments of an environment
InlineProviders(environment) ==
    IF "providers" \in DOMAIN environment THEN environment.providers ELSE <<>>

\* the inline fragments are converted without the environments tag
ConvertedProviders_Untagged(environment) == InlineProviders(environment)

\* {...provider, environments: [environment.name]} for each inline fragment
ConvertedProviders(environment) ==
    [j \in 1..Len(InlineProviders(environment)) |->
        Obj(("environments" :> Arr(<<Str(environment.name)>>))
                @@ InlineProviders(environment)[j].m)]

\* the environment with the schema's defaults and without inline fragments
CanonicalEnvironment(environment) ==
    [environment @@ environmentDefaults EXCEPT !.providers = <<>>]

\* an empty defaultEnvironment is left empty
ResolvedDefaultEnvironment_KeepsEmpty(config, environments) == config.defaultEnvironment

\* an empty defaultEnvironment becomes the first environment's name
ResolvedDefaultEnvironment(config, environments) ==
    IF config.defaultEnvironment = <<>> THEN environments[1].name
    ELSE config.defaultEnvironment

resolveProjectConfig(config) ==
    LET declared == config.environments
        environments ==
            IF declared = <<>> THEN defaultEnvironments
            ELSE [i \in 1..Len(declared) |-> CanonicalEnvironment(declared[i])]
    IN  [defaultEnvironment |-> ResolvedDefaultEnvironment(config, environments),
         environments |-> environments,
         providers |-> config.providers
                         \o flatten([i \in 1..Len(declared) |->
                                        ConvertedProviders(declared[i])]),
         variables |-> config.variables,
         varfile |-> defaultVarfilePath,
         sources |-> <<>>]

ResolveProjectConfig ==
    /\ resolvedProject = NoResult
    /\ resolvedProject' = resolveProjectConfig(rawProject)
    /\ UNCHANGED <<providerVars, envVars, rawProject>>

(***************************************************************************)
(* The run: Garden constructs one task per configured provider             *)
(***************************************************************************)

RawConfigLists ==
    {SelectSeq(ProviderOrder, LAMBDA n : n \in S) : S \in (SUBSET ProviderNames) \ {{}}}

RootTasks == {<<n, n>> : n \in Range(rawProviderConfigs)}

\* the environment of the run: one environment "e", nothing else configured
TheEnvironment == <<"e">>

EnvironmentOf(namespacing, variables, varfile) ==
    [name |-> TheEnvironment, namespacing |-> namespacing, production |-> FALSE,
     variables |-> variables, varfile |-> varfile]

ProjectOf(providers, variables, varfile, environment) ==
    [providers |-> providers, variables |-> variables, varfile |-> varfile,
     environments |-> <<environment>>]

DefaultEnvironment ==
    EnvironmentOf("optional", Obj(NoKeys), defaultEnvVarfilePath(TheEnvironment))

DefaultProject == ProjectOf(<<>>, Obj(NoKeys), defaultVarfilePath, DefaultEnvironment)

NoVarfiles == <<>>

\* a raw project in canonical form
RawProjectOf(defaultEnvironment, environments, providers) ==
    [defaultEnvironment |-> defaultEnvironment, environments |-> environments,
     providers |-> providers, variables |-> Obj(NoKeys)]

CanonicalProject ==
    RawProjectOf(TheEnvironment, <<[name |-> TheEnvironment, variables |-> Obj(NoKeys)]>>,
                 <<Obj([name |-> Str("some-provider")])>>)

Init ==
    /\ projectConfig = DefaultProject
    /\ envString = TheEnvironment
    /\ varfiles = NoVarfiles
    /\ picked = NoResult
    /\ parsed = NoResult
    /\ rawProject = CanonicalProject
    /\ resolvedProject = NoResult
    /\ rawProviderConfigs \in RawConfigLists
    /\ templateRefs \in [ProviderNames -> RefLists]
    /\ \A n \in ProviderNames \ Range(rawProviderConfigs) : templateRefs[n] = <<>>
    /\ forceInit \in BOOLEAN
    /\ resolvedProviders = [n \in ProviderNames |-> NoProvider]
    /\ tasks = RootTasks
    /\ stage = [t \in TaskKeys |-> "Pending"]
    /\ subTasks = [t \in TaskKeys |-> <<>>]
    /\ resolvedConfig = [t \in TaskKeys |-> NoConfig]
    /\ tmpProvider = [t \in TaskKeys |-> NoProvider]
    /\ status = [t \in TaskKeys |-> NoStatus]
    /\ output = [t \in TaskKeys |-> NoProvider]
    /\ error = [t \in TaskKeys |-> NoError]
    /\ calls = [t \in TaskKeys |-> NoCalls]
    /\ configureArgs = [t \in TaskKeys |-> NoConfig]
    /\ configureReturned = [t \in TaskKeys |-> NoConfig]
    /\ statusReturned = [t \in TaskKeys |-> NoStatus]
    /\ prepareArgs = [t \in TaskKeys |-> NoArgs]
    /\ prepareReturned = [t \in TaskKeys |-> NoStatus]
    /\ raised = [t \in TaskKeys |-> NoError]

Next ==
    \E t \in TaskKeys :
        \/ ResolveDependenciesThrow(t)
        \/ ResolveDependencies(t)
        \/ ProcessMemoized(t)
        \/ ProcessTemplateThrow(t)
        \/ ProcessValidateThrow(t)
        \/ ProcessConfigure(t)
        \/ ConfigureProviderRaise(t)
        \/ ConfigureProviderReturnInvalid(t)
        \/ ConfigureProviderReturn(t)
        \/ StatusReturn(t)
        \/ StatusRaise(t)
        \/ PrepareReturn(t)
        \/ PrepareRaise(t)
        \/ GardenStore(t)

Spec == Init /\ [][Next]_vars

\* a step of one task, the task graph giving up on failed dependencies included
TaskStep(t) ==
    \/ ResolveDependenciesThrow(t)
    \/ ResolveDependencies(t)
    \/ DependencyFailed(t)
    \/ ProcessMemoized(t)
    \/ ProcessTemplateThrow(t)
    \/ ProcessValidateThrow(t)
    \/ ProcessConfigure(t)
    \/ ConfigureProviderRaise(t)
    \/ ConfigureProviderReturnInvalid(t)
    \/ ConfigureProviderReturn(t)
    \/ StatusReturn(t)
    \/ StatusRaise(t)
    \/ PrepareReturn(t)
    \/ PrepareRaise(t)
    \/ GardenStore(t)

NextLive == \E t \in TaskKeys : TaskStep(t)

\* the run with a task graph that runs every task it can run and handlers that
\* each return or raise
SpecLive == Init /\ [][NextLive]_vars /\ \A t \in TaskKeys : WF_vars(TaskStep(t))

(***************************************************************************)
(* The calls of pickEnvironment                                            *)
(***************************************************************************)

\* the provider config fragments a project may declare
FragmentNames == {"container", "my-provider"}
FragmentBodies == {NoKeys, [a |-> Str("a")], [a |-> Str("c")], [a |-> Null], [b |-> Str("b")]}
FragmentFilters == {NoKeys, [environments |-> Arr(<<Str(TheEnvironment)>>)],
                    [environments |-> Arr(<<Str(<<"n">>)>>)]}

\* fragments of every body for all environments, and of one body for some
Fragments ==
    {Obj(("name" :> Str(n)) @@ body) : n \in FragmentNames, body \in FragmentBodies}
        \cup {Obj(("name" :> Str(n)) @@ [a |-> Str("a")] @@ filter) :
                  n \in FragmentNames, filter \in FragmentFilters}

FragmentLists == UNION {[1..k -> Fragments] : k \in 0..MaxFragments}

\* flat variables of one source, every value naming the source
FlatVariables(source) ==
    {Obj(Pick([a |-> Str(source), b |-> Str(source)], S)) : S \in SUBSET {"a", "b"}}

\* the lines of a varfile, every value naming the source; <<>> stands for no file
VarfileLines(source) ==
    {<<>>, <<<<"a", source>>>>, <<<<"b", source>>>>, <<<<"a", source>>, <<"b", source>>>>}

\* the files at the given paths, a path with no lines having no file
FilesAt(projectPath, projectLines, envPath, envLines) ==
    [path \in {pl[1] : pl \in {x \in {<<projectPath, projectLines>>, <<envPath, envLines>>} :
                                   x[2] # <<>>}} |->
        IF path = projectPath /\ projectLines # <<>> THEN projectLines ELSE envLines]

\* nested variable values of one source: a string, mappings, arrays of mappings,
\* a mapping in a mapping
Mappings(source) ==
    {Obj(Pick([k |-> Str(source), l |-> Str(source)], S)) : S \in SUBSET {"k", "l"}}

NestedValues(source) ==
    {Str(source)} \cup Mappings(source)
        \cup {Arr(s) : s \in UNION {[1..n -> Mappings(source)] : n \in 0..MaxArrayLen}}
        \cup {Obj([o |-> x]) : x \in Mappings(source)}

Selectors == UNION {[1..n -> Chars] : n \in 0..MaxSelectorLen}

\* projects that differ in their provider fragments
InitProviders ==
    /\ \E providers \in FragmentLists :
          projectConfig = ProjectOf(providers, Obj(NoKeys), defaultVarfilePath,
                                    DefaultEnvironment)
    /\ envString = TheEnvironment
    /\ varfiles = NoVarfiles

\* projects that differ in the flat variables of their four sources
InitFlatVariables ==
    /\ \E pv \in FlatVariables("project"), ev \in FlatVariables("environment") :
          projectConfig = ProjectOf(<<>>, pv, defaultVarfilePath,
                                    EnvironmentOf("optional", ev,
                                                  defaultEnvVarfilePath(TheEnvironment)))
    /\ \E pl \in VarfileLines("project varfile"), el \in VarfileLines("environment varfile") :
          varfiles = FilesAt(defaultVarfilePath, pl, defaultEnvVarfilePath(TheEnvironment), el)
    /\ envString = TheEnvironment

\* projects that differ in the nested variables of project and environment
InitNestedVariables ==
    /\ \E pv \in NestedValues("project"), ev \in NestedValues("environment") :
          projectConfig = ProjectOf(<<>>, Obj([n |-> pv]), defaultVarfilePath,
                                    EnvironmentOf("optional", Obj([n |-> ev]),
                                                  defaultEnvVarfilePath(TheEnvironment)))
    /\ varfiles \in {NoVarfiles, FilesAt(defaultVarfilePath, <<<<"n", "project varfile">>>>,
                                         defaultEnvVarfilePath(TheEnvironment), <<>>)}
    /\ envString = TheEnvironment

\* calls that differ in the selector and the namespacing policy
InitSelectors ==
    /\ \E namespacing \in {"optional", "required", "disabled"} :
          projectConfig = ProjectOf(<<>>, Obj(NoKeys), defaultVarfilePath,
                                    EnvironmentOf(namespacing, Obj(NoKeys),
                                                  defaultEnvVarfilePath(TheEnvironment)))
    /\ envString \in Selectors
    /\ varfiles = NoVarfiles

\* projects that differ in where their varfiles are and whether these exist
InitVarfiles ==
    /\ \E pp \in {defaultVarfilePath, <<"foo", "env">>},
          ep \in {defaultEnvVarfilePath(TheEnvironment), <<"bar", "env">>} :
          /\ projectConfig = ProjectOf(<<>>, Obj([a |-> Str("project")]), pp,
                                       EnvironmentOf("optional", Obj(NoKeys), ep))
          /\ \E pl \in {<<>>, <<<<"a", "project varfile">>>>},
                el \in {<<>>, <<<<"a", "environment varfile">>>>} :
                varfiles = FilesAt(pp, pl, ep, el)
    /\ envString = TheEnvironment

InitEnv ==
    /\ \/ InitProviders
       \/ InitFlatVariables
       \/ InitNestedVariables
       \/ InitSelectors
       \/ InitVarfiles
    /\ picked = NoResult
    /\ parsed = NoResult
    /\ rawProject = CanonicalProject
    /\ resolvedProject = NoResult
    /\ rawProviderConfigs = <<"a">>
    /\ templateRefs = [n \in ProviderNames |-> <<>>]
    /\ forceInit = FALSE
    /\ resolvedProviders = [n \in ProviderNames |-> NoProvider]
    /\ tasks = RootTasks
    /\ stage = [t \in TaskKeys |-> "Pending"]
    /\ subTasks = [t \in TaskKeys |-> <<>>]
    /\ resolvedConfig = [t \in TaskKeys |-> NoConfig]
    /\ tmpProvider = [t \in TaskKeys |-> NoProvider]
    /\ status = [t \in TaskKeys |-> NoStatus]
    /\ output = [t \in TaskKeys |-> NoProvider]
    /\ error = [t \in TaskKeys |-> NoError]
    /\ calls = [t \in TaskKeys |-> NoCalls]
    /\ configureArgs = [t \in TaskKeys |-> NoConfig]
    /\ configureReturned = [t \in TaskKeys |-> NoConfig]
    /\ statusReturned = [t \in TaskKeys |-> NoStatus]
    /\ prepareArgs = [t \in TaskKeys |-> NoArgs]
    /\ prepareReturned = [t \in TaskKeys |-> NoStatus]
    /\ raised = [t \in TaskKeys |-> NoError]

NextEnv ==
    \/ ParseEnvironment
    \/ PickEnvironmentInvalid
    \/ PickEnvironmentUnknown
    \/ PickEnvironmentNamespacing
    \/ PickEnvironmentVarfileMissing
    \/ PickEnvironment

SpecEnv == InitEnv /\ [][NextEnv]_vars

(***************************************************************************)
(* The calls of resolveProjectConfig                                       *)
(***************************************************************************)

EnvironmentNames == {TheEnvironment, <<"n">>, LocalName}

\* the inline fragments an environment may carry, one of them with a filter of its own
InlineFragments ==
    {Obj([name |-> Str("provider-b")]),
     Obj([name |-> Str("provider-c"), environments |-> Arr(<<Str(<<"n">>)>>)])}

InlineLists == UNION {[1..k -> InlineFragments] : k \in 1..MaxInline}

\* raw environments: with inline fragments, or without the providers key
RawEnvironments ==
    {[name |-> n, variables |-> Obj(NoKeys)] : n \in EnvironmentNames}
        \cup {[name |-> n, variables |-> Obj(NoKeys), providers |-> l] :
                  n \in EnvironmentNames, l \in InlineLists}

\* the environments of a project, their names unique
RawEnvironmentLists ==
    {l \in UNION {[1..k -> RawEnvironments] : k \in 0..MaxEnvironments} :
        \A i, j \in 1..Len(l) : l[i].name = l[j].name => i = j}

TopLevelLists ==
    {<<>>, <<Obj([name |-> Str("provider-a")])>>,
     <<Obj([name |-> Str("provider-a")]),
       Obj([name |-> Str("provider-b"), environments |-> Arr(<<Str(TheEnvironment)>>)])>>}

InitProject ==
    /\ \E d \in {<<>>, LocalName, TheEnvironment}, l \in RawEnvironmentLists,
          p \in TopLevelLists : rawProject = RawProjectOf(d, l, p)
    /\ resolvedProject = NoResult
    /\ projectConfig = DefaultProject
    /\ envString = TheEnvironment
    /\ varfiles = NoVarfiles
    /\ picked = NoResult
    /\ parsed = NoResult
    /\ rawProviderConfigs = <<"a">>
    /\ templateRefs = [n \in ProviderNames |-> <<>>]
    /\ forceInit = FALSE
    /\ resolvedProviders = [n \in ProviderNames |-> NoProvider]
    /\ tasks = RootTasks
    /\ stage = [t \in TaskKeys |-> "Pending"]
    /\ subTasks = [t \in TaskKeys |-> <<>>]
    /\ resolvedConfig = [t \in TaskKeys |-> NoConfig]
    /\ tmpProvider = [t \in TaskKeys |-> NoProvider]
    /\ status = [t \in TaskKeys |-> NoStatus]
    /\ output = [t \in TaskKeys |-> NoProvider]
    /\ error = [t \in TaskKeys |-> NoError]
    /\ calls = [t \in TaskKeys |-> NoCalls]
    /\ configureArgs = [t \in TaskKeys |-> NoConfig]
    /\ configureReturned = [t \in TaskKeys |-> NoConfig]
    /\ statusReturned = [t \in TaskKeys |-> NoStatus]
    /\ prepareArgs = [t \in TaskKeys |-> NoArgs]
    /\ prepareReturned = [t \in TaskKeys |-> NoStatus]
    /\ raised = [t \in TaskKeys |-> NoError]

NextProject == ResolveProjectConfig

SpecProject == InitProject /\ [][NextProject]_vars

(***************************************************************************)
(* Properties                                                              *)
(***************************************************************************)

\* the stages in which a task is inside process() past its configureProvider call
InProcess == {"Configuring", "Checking", "Preparing"}

\* C1: of two tasks for the same provider name that are inside process() at the
\* same time, at most one has invoked configureProvider and runs the readiness
\* logic; the other waits for the first one's result.
C1_OneTaskPerNameConfigures ==
    \A t1 \in tasks, t2 \in tasks :
        (t1 # t2 /\ Name(t1) = Name(t2)) =>
            ~(stage[t1] \in InProcess /\ stage[t2] \in InProcess)

\* C2: a task that starts process() while the memo holds a Provider for its name
\* ends process() in that step, returns exactly the memoized Provider and invokes
\* no plugin handler.
C2_MemoizedProviderReturned ==
    [][\A t \in tasks :
          (/\ stage[t] = "DependenciesResolving"
           /\ stage'[t] # stage[t]
           /\ resolvedProviders[Name(t)] # NoProvider)
          => /\ stage'[t] = "Ready"
             /\ output'[t] = resolvedProviders[Name(t)]
             /\ calls'[t] = NoCalls
             /\ error'[t] = NoError]_vars

\* a task has returned a Provider that another task produced, without any handler call
C2_Witness ==
    \E t \in tasks :
        /\ stage[t] = "Ready"
        /\ output[t].ref # t
        /\ output[t] = resolvedProviders[Name(t)]
        /\ calls[t] = NoCalls

\* C3: whenever process() has returned a Provider for name n, the memo holds that
\* Provider under n.
C3_ReturnedProviderIsInMemo ==
    \A t \in tasks :
        stage[t] = "Ready" => resolvedProviders[Name(t)] = output[t]

RECURSIVE AncestorsOf(_)
\* the plugins a plugin inherits from, directly or through its base
AncestorsOf(p) ==
    IF plugins[p].base = NoBase THEN {}
    ELSE {plugins[p].base} \cup AncestorsOf(plugins[p].base)

\* the configured providers that dependency name d stands for
MatchedBy(d) == {c \in Range(rawProviderConfigs) : c = d \/ d \in AncestorsOf(c)}

\* the status the readiness protocol of task t ended with, once it has ended
ProtocolEnded(t) ==
    \/ prepareReturned[t] # NoStatus
    \/ statusReturned[t] # NoStatus /\ prepareArgs[t].none

LastStatus(t) ==
    IF prepareReturned[t] # NoStatus THEN prepareReturned[t] ELSE statusReturned[t]

\* C4: when the readiness protocol of a task ends with a status that is not ready,
\* the task has failed with a PluginError carrying the provider name and that last
\* status, and has returned no Provider.
C4_NotReadyFailsWithPluginError ==
    \A t \in tasks :
        (ProtocolEnded(t) /\ ~LastStatus(t).ready) =>
            /\ stage[t] = "Failed"
            /\ error[t].kind = "PluginError"
            /\ error[t].name = Name(t)
            /\ error[t].status = LastStatus(t)
            /\ output[t] = NoProvider

\* a prepare handler has answered "not ready" and the task has failed
C4_Witness ==
    \E t \in tasks :
        /\ prepareReturned[t] # NoStatus
        /\ ~prepareReturned[t].ready
        /\ stage[t] = "Failed"

\* C5: once the status handler has returned, prepareEnvironment has been invoked
\* exactly if the returned status is not ready or forceInit is set, then once and
\* with that status and the forceInit flag; the status prepareEnvironment returns
\* becomes the task's status and the status of the Provider it returns.
C5_PrepareExactlyWhenNeeded ==
    \A t \in tasks :
        /\ statusReturned[t] = NoStatus =>
              prepareArgs[t].none /\ calls[t].prepareEnvironment = 0
        /\ statusReturned[t] # NoStatus =>
              /\ ~prepareArgs[t].none <=> (forceInit \/ ~statusReturned[t].ready)
              /\ prepareArgs[t].none => calls[t].prepareEnvironment = 0
              /\ ~prepareArgs[t].none =>
                    /\ calls[t].prepareEnvironment = 1
                    /\ prepareArgs[t].status = statusReturned[t]
                    /\ prepareArgs[t].force = forceInit
        /\ prepareReturned[t] # NoStatus =>
              /\ status[t] = prepareReturned[t]
              /\ stage[t] = "Ready" => output[t].status = prepareReturned[t]

\* a forced prepare after a ready status check, whose returned status was adopted
C5_Witness ==
    \E t \in tasks :
        /\ forceInit
        /\ statusReturned[t].ready
        /\ statusReturned[t].detail = "checked"
        /\ stage[t] = "Ready"
        /\ output[t].ref = t
        /\ output[t].status.detail = "prepared"

\* a ready status check without forceInit: the task is Ready and prepare was never invoked
C5_WitnessNoPrepare ==
    \E t \in tasks :
        /\ ~forceInit
        /\ statusReturned[t].ready
        /\ stage[t] = "Ready"
        /\ calls[t].prepareEnvironment = 0

\* the dependency names of provider n: its plugin's explicit ones and its template references
DependencyNames(n) == Range(plugins[n].dependencies) \cup Range(templateRefs[n])

\* C6: when the status or prepare handler of a provider has been invoked, every
\* configured provider that one of its dependency names stands for has been
\* resolved by some task with a ready status.
C6_ReadinessAfterDependencies ==
    \A t \in tasks :
        calls[t].getEnvironmentStatus + calls[t].prepareEnvironment > 0 =>
            \A d \in DependencyNames(Name(t)) : \A c \in MatchedBy(d) :
                \E k \in tasks :
                    /\ Name(k) = c
                    /\ stage[k] = "Ready"
                    /\ output[k].status.ready

\* C7: a task that is past resolveDependencies() while an explicit dependency of
\* its plugin stands for no configured provider has failed with a
\* ConfigurationError naming its provider and such a missing dependency.
C7_MissingExplicitDependencyFails ==
    \A t \in tasks :
        LET missing == {d \in Range(plugins[t[2]].dependencies) : MatchedBy(d) = {}}
        IN  (stage[t] # "Pending" /\ missing # {}) =>
                /\ stage[t] = "Failed"
                /\ error[t].kind = "ConfigurationError"
                /\ error[t].provider = Name(t)
                /\ error[t].missingProviderName \in missing

\* a task has failed on a missing explicit dependency
C7_Witness ==
    \E t \in tasks :
        /\ stage[t] = "Failed"
        /\ error[t].kind = "ConfigurationError"
        /\ error[t].provider = Name(t)
        /\ "missingProviderName" \in DOMAIN error[t]
        /\ MatchedBy(error[t].missingProviderName) = {}

Rank(st) ==
    CASE st = "Pending" -> 0
      [] st = "DependenciesResolving" -> 1
      [] st = "Configuring" -> 2
      [] st = "Checking" -> 3
      [] st = "Preparing" -> 4
      [] st = "Ready" -> 5
      [] st = "Failed" -> 6

\* config is accepted by the schema of plugin p
PassesOwn(p, config) ==
    plugins[p].configSchema =>
        /\ plugins[p].required \subseteq (config.keys \cup plugins[p].defaults)
        /\ config.keys \subseteq plugins[p].known

\* config is accepted by the schema, unknown keys allowed, of every ancestor of p that has one
PassesBases(p, config) ==
    \A b \in AncestorsOf(p) :
        plugins[b].configSchema =>
            plugins[b].required \subseteq (config.keys \cup plugins[b].defaults)

\* C8: a task changes stage only forward in the order Pending,
\* DependenciesResolving, Configuring, Checking, Preparing, Ready, or to Failed;
\* configureProvider is invoked only on a config that passed the plugin's schema,
\* the status handler only after configureProvider returned a config that passed
\* all schemas, the prepare handler only after the status handler returned; a
\* task that is Ready or Failed changes no more and invokes no handler.
C8_StagesInOrder ==
    [][\A t \in TaskKeys :
          /\ stage'[t] # stage[t] =>
                /\ stage[t] \notin {"Ready", "Failed"}
                /\ Rank(stage'[t]) > Rank(stage[t])
          /\ calls'[t].configureProvider > calls[t].configureProvider =>
                /\ stage[t] = "DependenciesResolving"
                /\ stage'[t] = "Configuring"
                /\ PassesOwn(t[2], configureArgs'[t])
          /\ calls'[t].getEnvironmentStatus > calls[t].getEnvironmentStatus =>
                /\ stage[t] = "Configuring"
                /\ stage'[t] = "Checking"
                /\ calls[t].configureProvider > 0
                /\ PassesOwn(t[2], resolvedConfig'[t])
                /\ PassesBases(t[2], resolvedConfig'[t])
          /\ calls'[t].prepareEnvironment > calls[t].prepareEnvironment =>
                /\ stage[t] = "Checking"
                /\ stage'[t] = "Preparing"
                /\ statusReturned'[t] # NoStatus
          /\ stage[t] \in {"Ready", "Failed"} =>
                /\ calls'[t] = calls[t]
                /\ output'[t] = output[t]
                /\ error'[t] = error[t]]_vars

\* a task of a plugin with a schema and a base with a schema went through every stage
C8_Witness ==
    \E t \in tasks :
        /\ stage[t] = "Ready"
        /\ plugins[t[2]].configSchema
        /\ \E b \in AncestorsOf(t[2]) : plugins[b].configSchema
        /\ calls[t] = [configureProvider |-> 1, getEnvironmentStatus |-> 1,
                       prepareEnvironment |-> 1]

\* C9: every Provider in the memo is one that a task returned from process(), and
\* a step in which a task fails leaves the memo unchanged.
C9_FailureLeavesMemoUnchanged ==
    /\ [](\A n \in ProviderNames :
             resolvedProviders[n] # NoProvider =>
                 /\ resolvedProviders[n].name = n
                 /\ resolvedProviders[n].status.ready
                 /\ \E t \in tasks : stage[t] = "Ready" /\ output[t] = resolvedProviders[n])
    /\ [][\A t \in TaskKeys :
             (stage'[t] = "Failed" /\ stage[t] # "Failed") =>
                 resolvedProviders' = resolvedProviders]_vars

\* a task has failed in the readiness protocol while the memo already held a Provider
C9_Witness ==
    \E t \in tasks :
        /\ stage[t] = "Failed"
        /\ error[t].kind = "PluginError"
        /\ \E n \in ProviderNames : resolvedProviders[n] # NoProvider
        /\ resolvedProviders[Name(t)] = NoProvider

\* C10: a task invokes configureProvider at most once; if the handler raised, the
\* task has failed with exactly the raised error and has invoked neither the
\* status nor the prepare handler.
C10_ConfigureOnceAndErrorPropagates ==
    \A t \in tasks :
        /\ calls[t].configureProvider <= 1
        /\ (raised[t].kind = "HandlerError" /\ raised[t].handler = "configureProvider") =>
              /\ stage[t] = "Failed"
              /\ error[t] = raised[t]
              /\ output[t] = NoProvider
              /\ calls[t].getEnvironmentStatus = 0
              /\ calls[t].prepareEnvironment = 0

\* a configureProvider handler has raised
C10_Witness ==
    \E t \in tasks :
        /\ raised[t].kind = "HandlerError"
        /\ raised[t].handler = "configureProvider"
        /\ calls[t].configureProvider = 1

\* the config with the defaults of plugin p's schema filled in
WithDefaults(p, config) ==
    IF plugins[p].configSchema THEN [config EXCEPT !.keys = @ \cup plugins[p].defaults]
    ELSE config

RECURSIVE PassesChainFrom(_, _)
\* the config passes the schema of b with unknown keys accepted, and what that
\* validation hands on passes the rest of the chain
PassesChainFrom(b, config) ==
    \/ b = NoBase
    \/ /\ plugins[b].configSchema =>
              plugins[b].required \subseteq (config.keys \cup plugins[b].defaults)
       /\ PassesChainFrom(plugins[b].base, WithDefaults(b, config))

\* the config passes the schema of plugin p and then, handed from validation to
\* validation, the schema of every ancestor of p
ValidatedInChain(p, config) ==
    /\ PassesOwn(p, config)
    /\ PassesChainFrom(plugins[p].base, WithDefaults(p, config))

\* C11 as stated: a task returns a newly resolved Provider only if the config the
\* configureProvider handler returned passed the plugin's own schema and that same
\* returned config passed the schema of every ancestor with unknown keys accepted;
\* a returned config failing one of these fails the task with a ConfigurationError
\* before the status handler is invoked.
C11_SameReturnedConfigPassesEveryBase ==
    \A t \in tasks :
        /\ (stage[t] = "Ready" /\ output[t].ref = t) =>
              /\ configureReturned[t] # NoConfig
              /\ PassesOwn(t[2], configureReturned[t])
              /\ PassesBases(t[2], configureReturned[t])
        /\ (/\ configureReturned[t] # NoConfig
            /\ ~(PassesOwn(t[2], configureReturned[t]) /\ PassesBases(t[2], configureReturned[t]))) =>
              /\ stage[t] = "Failed"
              /\ error[t].kind = "ConfigurationError"
              /\ calls[t].getEnvironmentStatus = 0

\* C11 amended: a task returns a newly resolved Provider only if the config the
\* configureProvider handler returned passed the schema of the task's plugin and
\* then, each validation handing its validated config (defaults filled in) to the
\* next, the schema of every ancestor of that plugin in chain order with unknown
\* keys accepted; if one of these validations fails, the task has failed with a
\* ConfigurationError, returned no Provider and never invoked the status handler.
C11_ValidatedConfigPassesEveryBase ==
    \A t \in tasks :
        /\ (stage[t] = "Ready" /\ output[t].ref = t) =>
              /\ configureReturned[t] # NoConfig
              /\ ValidatedInChain(t[2], configureReturned[t])
        /\ (configureReturned[t] # NoConfig /\ ~ValidatedInChain(t[2], configureReturned[t])) =>
              /\ stage[t] = "Failed"
              /\ error[t].kind = "ConfigurationError"
              /\ output[t] = NoProvider
              /\ calls[t].getEnvironmentStatus = 0
              /\ calls[t].prepareEnvironment = 0

\* a task returned a Provider whose handler-returned config lacks a key its base
\* requires and carries a key its base does not know
C11_Witness ==
    \E t \in tasks :
        /\ stage[t] = "Ready"
        /\ output[t].ref = t
        /\ \E b \in AncestorsOf(t[2]) :
              /\ plugins[b].configSchema
              /\ ~(plugins[b].required \subseteq configureReturned[t].keys)
              /\ ~(configureReturned[t].keys \subseteq plugins[b].known)

\* a task failed because a base's schema rejected the config its own schema accepted
C11_WitnessBaseRejects ==
    \E t \in tasks :
        /\ stage[t] = "Failed"
        /\ error[t].kind = "ConfigurationError"
        /\ configureReturned[t] # NoConfig
        /\ PassesOwn(t[2], configureReturned[t])
        /\ calls[t].getEnvironmentStatus = 0

\* the dependency names of a task: its plugin's declared dependencies and the
\* provider names its config's template expressions reference
TaskDependencyNames(t) == Range(plugins[t[2]].dependencies) \cup Range(templateRefs[t[1]])

\* C12: when resolveDependencies returns, then for every dependency name of the
\* task the providers it returns sub-tasks for are exactly the configured providers
\* whose name is that dependency name or whose plugin inherits from a plugin of
\* that name, and it returns no sub-task for any other name.
C12_SubTasksForExactlyTheMatched ==
    [][\A t \in TaskKeys :
          (stage[t] = "Pending" /\ stage'[t] = "DependenciesResolving") =>
              /\ \A d \in TaskDependencyNames(t) :
                    {k[1] : k \in {j \in Range(subTasks'[t]) : j[2] = d}} = MatchedBy(d)
              /\ \A k \in Range(subTasks'[t]) : k[2] \in TaskDependencyNames(t)]_vars

\* a task got a sub-task for a provider matched through its base plugin's name,
\* and none for a configured provider that no dependency name matches
C12_Witness ==
    \E t \in tasks :
        /\ stage[t] = "DependenciesResolving"
        /\ \E k \in Range(subTasks[t]) : k[1] # k[2] /\ k[2] \in AncestorsOf(k[1])
        /\ \E c \in Range(rawProviderConfigs) : \A k \in Range(subTasks[t]) : k[1] # c

RECURSIVE Descend(_, _)
\* the tasks reachable from the frontier through sub-task lists, added to seen
Descend(frontier, seen) ==
    LET next == UNION {Range(subTasks[k]) : k \in frontier} \ seen
    IN  IF next = {} THEN seen ELSE Descend(next, seen \cup next)

\* the direct and transitive dependency sub-tasks of a task
TransitiveSubTasks(t) == Descend({t}, {})

RECURSIVE DescendProviders(_, _)
\* the tasks whose Providers are reachable from the frontier through dependency lists
DescendProviders(frontier, seen) ==
    LET next == UNION {{d.ref : d \in output[k].dependencies} :
                          k \in {j \in frontier : output[j] # NoProvider}} \ seen
    IN  IF next = {} THEN seen ELSE DescendProviders(next, seen \cup next)

\* no resolved Provider reaches itself through its dependency list
ProvidersAcyclic ==
    \A t \in tasks :
        (output[t] # NoProvider /\ output[t].ref = t) => t \notin DescendProviders({t}, {})

\* C13: no task is among its own direct or transitive dependency sub-tasks, and
\* no resolved Provider reaches itself through its dependency list.
C13_NoDependencyCycles ==
    /\ \A t \in tasks : t \notin TransitiveSubTasks(t)
    /\ ProvidersAcyclic

\* resolveDependencies returned a sub-task list that leads back to the task itself
C13_CycleReached ==
    \E t \in tasks : stage[t] = "DependenciesResolving" /\ t \in TransitiveSubTasks(t)

\* a task is a sub-task of its own sub-task without being its own sub-task
C13_MutualCycleReached ==
    \E t \in tasks :
        /\ t \notin Range(subTasks[t])
        /\ \E k \in Range(subTasks[t]) : t \in Range(subTasks[k])

\* C14: a task whose provider name is in the memo performs no dependency
\* discovery (it creates no sub-task and throws no missing-dependency error), no
\* template resolution and no validation: its next step returns the memoized
\* Provider.
C14_MemoCheckBeforeAllWork ==
    [][\A t \in tasks :
          (/\ resolvedProviders[Name(t)] # NoProvider
           /\ stage[t] \in {"Pending", "DependenciesResolving"}
           /\ stage'[t] # stage[t])
          => /\ stage'[t] = "Ready"
             /\ output'[t] = resolvedProviders[Name(t)]
             /\ subTasks'[t] = subTasks[t]
             /\ tasks' = tasks
             /\ error'[t] = NoError
             /\ resolvedConfig'[t] = resolvedConfig[t]]_vars

\* a task threw the missing-dependency error although the memo held its provider
C14_ThrewDespiteMemo ==
    \E t \in tasks :
        /\ resolvedProviders[Name(t)] # NoProvider
        /\ stage[t] = "Failed"
        /\ subTasks[t] = <<>>
        /\ calls[t] = NoCalls
        /\ error[t].kind = "ConfigurationError"
        /\ \E k \in tasks : k # t /\ output[k] = resolvedProviders[Name(t)] /\ output[k].ref = k

\* the Provider records for name n that exist: temporary ones, returned ones, the memoized one
ProviderRecordsFor(n) ==
    {tmpProvider[t] : t \in {k \in tasks : Name(k) = n}}
        \cup {output[t] : t \in {k \in tasks : Name(k) = n}}
        \cup {resolvedProviders[n]}

\* C15 as stated: a Provider record for name n exists (and is in the plugin context
\* of a handler call) only when the readiness protocol of n has completed with a
\* ready status.
C15_NoProviderBeforeReadiness ==
    \A n \in ProviderNames :
        ProviderRecordsFor(n) # {NoProvider} =>
            \E t \in tasks : Name(t) = n /\ ProtocolEnded(t) /\ LastStatus(t).ready

\* C15 amended: a Provider is returned by process() or held by the memo only after
\* every dependency sub-task of the task that built it has returned its Provider
\* and that task's readiness protocol has ended ready, and it carries the status the
\* protocol ended with; the temporary Provider that process() builds before the
\* protocol and hands to the plugin context of the status and prepare handlers
\* carries the default ready status and exists from the status handler's
\* invocation on.
C15_ReturnedProviderAfterReadiness ==
    /\ \A t \in tasks :
          /\ output[t] # NoProvider =>
                LET k == output[t].ref
                IN  /\ k \in tasks
                    /\ Name(k) = Name(t)
                    /\ \A d \in Range(subTasks[k]) : stage[d] = "Ready"
                    /\ ProtocolEnded(k)
                    /\ LastStatus(k).ready
                    /\ output[t].status = LastStatus(k)
          /\ tmpProvider[t] # NoProvider <=> calls[t].getEnvironmentStatus > 0
          /\ tmpProvider[t] # NoProvider =>
                /\ tmpProvider[t].status = [ready |-> TRUE, detail |-> "default"]
                /\ \A d \in Range(subTasks[t]) : stage[d] = "Ready"
    /\ \A n \in ProviderNames :
          resolvedProviders[n] # NoProvider =>
              \E t \in tasks : output[t] = resolvedProviders[n] /\ output[t].ref = t

\* a temporary Provider is in the plugin context of a status handler call that has
\* not returned, and another task has returned a Provider after a prepare step
C15_Witness ==
    /\ \E t \in tasks :
          /\ stage[t] = "Checking"
          /\ tmpProvider[t] # NoProvider
          /\ statusReturned[t] = NoStatus
    /\ \E t \in tasks :
          /\ stage[t] = "Ready"
          /\ output[t].ref = t
          /\ prepareReturned[t] # NoStatus
          /\ output[t].status = prepareReturned[t]

(***************************************************************************)
(* Properties of pickEnvironment                                           *)
(***************************************************************************)

\* the declared fragments that apply to the selected environment, in order
ApplicableFragments ==
    SelectSeq(projectConfig.providers,
              LAMBDA f : \/ "environments" \notin DOMAIN f.m
                         \/ Str(picked.environmentName) \in Range(f.m.environments.s))

NameOnly(name) == Obj([name |-> Str(name)])

BuiltIn == <<"exec", "container">>

\* the entries that make up the config of a provider name: the built-in entry if
\* there is one, then the applicable fragments of that name
EntriesOf(name) ==
    (IF name \in Range(BuiltIn) THEN <<NameOnly(name)>> ELSE <<>>)
        \o SelectSeq(ApplicableFragments, LAMBDA f : f.m.name = Str(name))

\* the last entry that mentions key k, or 0
LastMention(entries, k) ==
    LET mentions == {i \in 1..Len(entries) : k \in DOMAIN entries[i].m}
    IN  IF mentions = {} THEN 0 ELSE CHOOSE i \in mentions : \A j \in mentions : j <= i

\* the config the entries of a name amount to: every key has the value of the
\* entry that mentions it last, and is gone if that entry is a later one setting null
ExpectedConfig(name) ==
    LET entries == EntriesOf(name)
        keys == UNION {DOMAIN entries[i].m : i \in 1..Len(entries)}
        kept == {k \in keys : ~(/\ LastMention(entries, k) > 1
                                 /\ entries[LastMention(entries, k)].m[k] = Null)}
    IN  Obj([k \in kept |-> entries[LastMention(entries, k)].m[k]])

\* C16 as stated: the result starts with the built-in providers exec and
\* container, and these entries are unchanged whatever fragments the user declares.
C16_BuiltInsUnpatched ==
    picked.kind = "ok" =>
        /\ Len(picked.providers) >= 2
        /\ picked.providers[1] = NameOnly("exec")
        /\ picked.providers[2] = NameOnly("container")

\* C16 amended: the result starts with the entries of the built-in providers exec
\* and container, in this order and ahead of every other provider; a built-in's
\* entry is just its name unless declared fragments of that name apply, and then
\* these fragments are patch-merged into it at its place.
C16_BuiltInsFirstAndPatched ==
    picked.kind = "ok" =>
        /\ Len(picked.providers) >= 2
        /\ \A i \in 1..2 :
              /\ picked.providers[i].m.name = Str(BuiltIn[i])
              /\ picked.providers[i] = ExpectedConfig(BuiltIn[i])
              /\ EntriesOf(BuiltIn[i]) = <<NameOnly(BuiltIn[i])>> =>
                    picked.providers[i] = NameOnly(BuiltIn[i])
        /\ \A i \in 3..Len(picked.providers) :
              picked.providers[i].m.name \notin {Str("exec"), Str("container")}

\* a fragment named container was declared behind another provider's fragment and
\* its key is found in the built-in entry, which still comes second
C16_Witness ==
    /\ picked.kind = "ok"
    /\ Len(projectConfig.providers) >= 2
    /\ projectConfig.providers[1].m.name = Str("my-provider")
    /\ projectConfig.providers[2] = Obj([name |-> Str("container"), a |-> Str("a")])
    /\ picked.providers[2] = Obj([name |-> Str("container"), a |-> Str("a")])
    /\ Len(picked.providers) = 3

RECURSIVE Distinct(_)
\* the sequence without the repetitions of its elements
Distinct(seq) ==
    IF seq = <<>> THEN <<>>
    ELSE LET front == Distinct(SubSeq(seq, 1, Len(seq) - 1))
         IN  IF seq[Len(seq)] \in Range(front) THEN front ELSE Append(front, seq[Len(seq)])

\* the provider names of the applicable fragments, and of the result
FragmentNamesSeen == [i \in 1..Len(ApplicableFragments) |-> ApplicableFragments[i].m.name.v]
PickedNames == [i \in 1..Len(picked.providers) |-> picked.providers[i].m.name.v]

\* C17 as stated, the built-in entries that no fragment names left aside: the
\* result holds one config per distinct name of the applicable fragments, in the
\* first-seen order of these names, each being the same-named fragments applied in
\* list order as JSON Merge Patches.
C17_OneConfigPerFragmentName ==
    picked.kind = "ok" =>
        /\ SelectSeq(PickedNames, LAMBDA n : n \in Range(FragmentNamesSeen))
               = Distinct(FragmentNamesSeen)
        /\ \A i \in 1..Len(picked.providers) :
              PickedNames[i] \in Range(FragmentNamesSeen) =>
                  picked.providers[i] = ExpectedConfig(PickedNames[i])

\* C17 amended: the result holds exactly one config per distinct name among the
\* built-in providers followed by the applicable fragments, in the first-seen order
\* of that combined list (so exec and container come first, also when a fragment of
\* another name precedes a fragment named container); each config is the first
\* entry of its name with the later same-named fragments applied to it in list
\* order as JSON Merge Patches: a later key overwrites an earlier one and a key a
\* later fragment sets to null is deleted.
C17_OneConfigPerNameBuiltInsFirst ==
    picked.kind = "ok" =>
        /\ PickedNames = Distinct(BuiltIn \o FragmentNamesSeen)
        /\ \A i \in 1..Len(picked.providers) :
              picked.providers[i] = ExpectedConfig(PickedNames[i])

\* fragments a:"a", then b:"b", then a:null of one provider gave only b:"b"
C17_Witness ==
    /\ picked.kind = "ok"
    /\ projectConfig.providers = <<Obj([name |-> Str("my-provider"), a |-> Str("a")]),
                                   Obj([name |-> Str("my-provider"), b |-> Str("b")]),
                                   Obj([name |-> Str("my-provider"), a |-> Null])>>
    /\ picked.providers = <<NameOnly("exec"), NameOnly("container"),
                            Obj([name |-> Str("my-provider"), b |-> Str("b")])>>

\* a filtered-out fragment left no trace and a later value overwrote an earlier one
C17_WitnessOverwrite ==
    /\ picked.kind = "ok"
    /\ Len(ApplicableFragments) = 2
    /\ Len(projectConfig.providers) = 3
    /\ Len(picked.providers) = 3
    /\ picked.providers[3] = Obj([name |-> Str("my-provider"), a |-> Str("c")])
    /\ ApplicableFragments[1] = Obj([name |-> Str("my-provider"), a |-> Str("a")])

\* the variables a varfile holds, none if there is no file
VarsAt(path) ==
    IF path \notin DOMAIN varfiles THEN Obj(NoKeys)
    ELSE Obj([k \in {ln[1] : ln \in Range(varfiles[path])} |->
                 Str((CHOOSE ln \in Range(varfiles[path]) : ln[1] = k)[2])])

\* the four sources of variables, lowest precedence first
Sources ==
    <<projectConfig.variables,
      VarsAt(projectConfig.varfile),
      projectConfig.environments[1].variables,
      VarsAt(projectConfig.environments[1].varfile)>>

SourceKeys == UNION {DOMAIN Sources[i].m : i \in 1..4}

\* the sources that define key k, and the one of highest precedence among them
Defining(k) == {i \in 1..4 : k \in DOMAIN Sources[i].m}
Top(k) == CHOOSE i \in Defining(k) : \A j \in Defining(k) : j <= i

\* C18 as stated: every key of the returned variables has the value of the
\* highest-precedence source that defines it (project variables, project varfile,
\* environment variables, environment varfile, from lowest to highest).
C18_ValueOfHighestSource ==
    picked.kind = "ok" =>
        /\ DOMAIN picked.variables.m = SourceKeys
        /\ \A k \in SourceKeys : picked.variables.m[k] = Sources[Top(k)].m[k]

\* the sources that define key j inside the mapping they hold under key k
DefiningIn(k, j) == {i \in Defining(k) : j \in DOMAIN Sources[i].m[k].m}
TopIn(k, j) == CHOOSE i \in DefiningIn(k, j) : \A h \in DefiningIn(k, j) : h <= i

\* C18 amended: the returned variables have exactly the keys the four sources
\* define; a key that one source alone defines, or for which the highest-precedence
\* source defining it holds a scalar, has that source's value (precedence from
\* lowest to highest: project variables, project varfile, environment variables,
\* environment varfile); where all sources defining a key hold mappings, the value
\* is their deep merge, in which each inner key follows the same precedence.
C18_ScalarOfHighestSourceElseMerged ==
    picked.kind = "ok" =>
        /\ DOMAIN picked.variables.m = SourceKeys
        /\ \A k \in SourceKeys :
              /\ (Cardinality(Defining(k)) = 1 \/ Sources[Top(k)].m[k].t = "str") =>
                    picked.variables.m[k] = Sources[Top(k)].m[k]
              /\ (\A i \in Defining(k) : Sources[i].m[k].t = "obj") =>
                    /\ picked.variables.m[k].t = "obj"
                    /\ DOMAIN picked.variables.m[k].m
                           = UNION {DOMAIN Sources[i].m[k].m : i \in Defining(k)}
                    /\ \A j \in DOMAIN picked.variables.m[k].m :
                          Sources[TopIn(k, j)].m[k].m[j].t = "str" =>
                              picked.variables.m[k].m[j] = Sources[TopIn(k, j)].m[k].m[j]

\* all four sources define a, the two project sources define b: a comes from the
\* environment varfile, b from the project varfile
C18_Witness ==
    /\ picked.kind = "ok"
    /\ Defining("a") = 1..4
    /\ Defining("b") = {1, 2}
    /\ picked.variables = Obj([a |-> Str("environment varfile"), b |-> Str("project varfile")])

\* project and environment hold mappings under the same key, and the result has
\* the keys of both
C18_WitnessMerged ==
    /\ picked.kind = "ok"
    /\ Defining("n") = {1, 3}
    /\ Sources[1].m.n = Obj([k |-> Str("project")])
    /\ Sources[3].m.n = Obj([l |-> Str("environment")])
    /\ picked.variables.m.n = Obj([k |-> Str("project"), l |-> Str("environment")])

\* where the run of values of the last value's kind begins at the end of vals
RunStart(vals) ==
    CHOOSE i \in 1..Len(vals) :
        /\ \A j \in i..Len(vals) : vals[j].t = vals[Len(vals)].t
        /\ i = 1 \/ vals[i - 1].t # vals[Len(vals)].t

\* the values found under key k in the mappings that have it, in order
ValuesUnder(mappings, k) ==
    LET having == SelectSeq(mappings, LAMBDA v : k \in DOMAIN v.m)
    IN  [i \in 1..Len(having) |-> having[i].m[k]]

\* the elements found at position p in the arrays long enough, in order
ElementsAt(arrays, p) ==
    LET having == SelectSeq(arrays, LAMBDA v : Len(v.s) >= p)
    IN  [i \in 1..Len(having) |-> having[i].s[p]]

RECURSIVE MergedFrom(_, _)
\* r is what the values, lowest precedence first, merge to: a last value that is
\* no mapping and no array stands alone; the mappings at the end merge to a mapping
\* with the keys of all of them, the arrays at the end to an array as long as the
\* longest, and below each key and at each position the same holds again
MergedFrom(vals, r) ==
    LET last == vals[Len(vals)]
        run == SubSeq(vals, RunStart(vals), Len(vals))
    IN  IF last.t = "obj"
        THEN /\ r.t = "obj"
             /\ DOMAIN r.m = UNION {DOMAIN run[i].m : i \in 1..Len(run)}
             /\ \A k \in DOMAIN r.m : MergedFrom(ValuesUnder(run, k), r.m[k])
        ELSE IF last.t = "arr"
        THEN /\ r.t = "arr"
             /\ \E i \in 1..Len(run) : Len(run[i].s) = Len(r.s)
             /\ \A i \in 1..Len(run) : Len(run[i].s) <= Len(r.s)
             /\ \A p \in 1..Len(r.s) : MergedFrom(ElementsAt(run, p), r.s[p])
        ELSE r = last

Namespaces ==
    UNION {[1..n -> NameChars] : n \in 1..MaxSelectorLen}

\* the namespace the selector puts in front of the configured environment's name,
\* <<>> if it is the bare name; only used where the selector is of either form
SelectorNamespace ==
    IF envString = TheEnvironment THEN <<>>
    ELSE CHOOSE ns \in Namespaces : envString = ns \o <<".">> \o TheEnvironment

SelectsTheEnvironment ==
    \/ envString = TheEnvironment
    \/ \E ns \in Namespaces : envString = ns \o <<".">> \o TheEnvironment

\* C20: once pickEnvironment has ended for a selector of the configured
\* environment: under the policy "required" a selector without namespace has
\* failed, under "disabled" a selector with a namespace has failed and the error
\* names that namespace, and in every other case the call has not failed for the
\* namespace and a returned result carries the selector's namespace (none for a
\* bare name).
C20_NamespacingPolicyEnforced ==
    (picked # NoResult /\ SelectsTheEnvironment) =>
        LET policy == projectConfig.environments[1].namespacing
        IN  IF policy = "required" /\ SelectorNamespace = <<>>
            THEN /\ picked.kind = "ConfigurationError"
                 /\ picked.message = "requires a namespace, but none was specified"
                 /\ picked.environment = TheEnvironment
            ELSE IF policy = "disabled" /\ SelectorNamespace # <<>>
            THEN /\ picked.kind = "ConfigurationError"
                 /\ picked.message = "does not allow namespacing, but namespace was specified"
                 /\ picked.namespace = SelectorNamespace
            ELSE /\ picked.kind \in {"ok", "ConfigurationError"}
                 /\ picked.kind = "ok" =>
                       /\ picked.namespace = SelectorNamespace
                       /\ picked.environmentName = TheEnvironment
                 /\ picked.kind = "ConfigurationError" =>
                       picked.message = "Could not find varfile at path"

\* a selector with a namespace was rejected by an environment that forbids namespaces
C20_Witness ==
    /\ picked.kind = "ConfigurationError"
    /\ projectConfig.environments[1].namespacing = "disabled"
    /\ envString = <<"n", ".", "e">>
    /\ picked.namespace = <<"n">>

\* a bare selector was rejected by an environment that requires a namespace
C20_WitnessRequired ==
    /\ picked.kind = "ConfigurationError"
    /\ projectConfig.environments[1].namespacing = "required"
    /\ envString = <<"e">>

\* a selector with a namespace was accepted under the policy "required"
C20_WitnessAccepted ==
    /\ picked.kind = "ok"
    /\ projectConfig.environments[1].namespacing = "required"
    /\ envString = <<"e", ".", "e">>
    /\ picked.namespace = <<"e">>

\* a bare selector was accepted under the policy "optional" and has no namespace
C20_WitnessOptional ==
    /\ picked.kind = "ok"
    /\ projectConfig.environments[1].namespacing = "optional"
    /\ projectConfig.providers = <<>>
    /\ envString = <<"e">>
    /\ picked.namespace = NoNamespace

\* the places of the delimiter in the selector, and what stands before and
\* behind the first of them
Delimiters == {i \in 1..Len(envString) : envString[i] = "."}
BeforeDelimiter == SubSeq(envString, 1, (CHOOSE i \in Delimiters : TRUE) - 1)
BehindDelimiter == SubSeq(envString, (CHOOSE i \in Delimiters : TRUE) + 1, Len(envString))

WellFormedName(segment) == segment # <<>> /\ Range(segment) \subseteq NameChars

\* what a call with the selector has to end in: the error message, or "<none>"
SelectorProblem ==
    IF Cardinality(Delimiters) > 1 THEN "may only contain a single delimiter"
    ELSE IF Delimiters = {} /\ WellFormedName(envString) THEN "<none>"
    ELSE IF /\ Delimiters # {}
            /\ WellFormedName(BeforeDelimiter)
            /\ WellFormedName(BehindDelimiter) THEN "<none>"
    ELSE "must be a valid environment name or <namespace>.<environment>"

\* C21: parseEnvironment maps a selector without "." to the environment alone
\* and a selector with one "." to the namespace before it and the environment
\* behind it; it fails with the single-delimiter error for every selector with
\* more than one ".", and with the valid-name error where a segment is no valid
\* name; pickEnvironment fails for such selectors with the same message.
C21_ParseEnvironmentCases ==
    /\ parsed # NoResult =>
          IF SelectorProblem # "<none>"
          THEN /\ parsed.kind = "ConfigurationError"
               /\ parsed.message = SelectorProblem
          ELSE /\ parsed.kind = "ok"
               /\ Delimiters = {} =>
                     parsed.environment = envString /\ parsed.namespace = NoNamespace
               /\ Delimiters # {} =>
                     /\ parsed.namespace = BeforeDelimiter
                     /\ parsed.environment = BehindDelimiter
    /\ (picked # NoResult /\ SelectorProblem # "<none>") =>
          /\ picked.kind = "ConfigurationError"
          /\ picked.message = SelectorProblem

\* "n.e" was parsed into namespace n and environment e
C21_Witness ==
    /\ envString = <<"n", ".", "e">>
    /\ parsed = [kind |-> "ok", environment |-> <<"e">>, namespace |-> <<"n">>]

\* "e.n.e" was rejected for its two delimiters
C21_WitnessDelimiters ==
    /\ envString = <<"e", ".", "n", ".", "e">>
    /\ parsed.kind = "ConfigurationError"
    /\ parsed.message = "may only contain a single delimiter"

\* "$.$" was rejected for its segments, by parseEnvironment and by pickEnvironment
C21_WitnessInvalidName ==
    /\ envString = <<"$", ".", "$">>
    /\ parsed.kind = "ConfigurationError"
    /\ parsed.message = "must be a valid environment name or <namespace>.<environment>"
    /\ picked.kind = "ConfigurationError"
    /\ picked.message = parsed.message

\* the configured varfile paths that are not the default ones and have no file
MissingConfigured ==
    {path \in {projectConfig.varfile} \ {defaultVarfilePath} : path \notin DOMAIN varfiles}
        \cup {path \in {projectConfig.environments[1].varfile}
                           \ {defaultEnvVarfilePath(projectConfig.environments[1].name)} :
                  path \notin DOMAIN varfiles}

\* C22: once pickEnvironment has ended for the configured environment (and its
\* namespacing policy asks for no namespace): if a varfile configured at another
\* path than the default one is missing, the call has failed with "Could not find
\* varfile at path" and the error carries such a path; otherwise, also when no
\* file is at a default path, the call has succeeded and the missing files have
\* added no variable.
C22_MissingVarfiles ==
    (/\ picked # NoResult
     /\ envString = TheEnvironment
     /\ projectConfig.environments[1].namespacing # "required") =>
        IF MissingConfigured # {}
        THEN /\ picked.kind = "ConfigurationError"
             /\ picked.message = "Could not find varfile at path"
             /\ picked.path \in MissingConfigured
        ELSE /\ picked.kind = "ok"
             /\ DOMAIN picked.variables.m = SourceKeys

\* the project's varfile was set to foo.env, which does not exist
C22_Witness ==
    /\ picked.kind = "ConfigurationError"
    /\ projectConfig.varfile = <<"foo", "env">>
    /\ <<"foo", "env">> \notin DOMAIN varfiles
    /\ picked.path = <<"foo", "env">>

\* the environment's varfile was set to bar.env, which does not exist
C22_WitnessEnvironment ==
    /\ picked.kind = "ConfigurationError"
    /\ projectConfig.varfile = defaultVarfilePath
    /\ projectConfig.environments[1].varfile = <<"bar", "env">>
    /\ picked.path = <<"bar", "env">>

\* no file at either default path, and the call returned the project's variable
C22_WitnessDefaultMissing ==
    /\ picked.kind = "ok"
    /\ varfiles = NoVarfiles
    /\ projectConfig.varfile = defaultVarfilePath
    /\ projectConfig.environments[1].varfile = defaultEnvVarfilePath(TheEnvironment)
    /\ picked.variables = Obj([a |-> Str("project")])

C23_WitnessOtherDefault ==
    /\ rawProject.environments = <<>>
    /\ rawProject.defaultEnvironment = TheEnvironment
    /\ resolvedProject # NoResult
    /\ resolvedProject.environments[1].name = LocalName

RECURSIVE InlineBefore(_)
\* how many inline fragments the environments ahead of the i-th carry
InlineBefore(i) ==
    IF i <= 1 THEN 0
    ELSE InlineBefore(i - 1) + Len(InlineProviders(rawProject.environments[i - 1]))

CarriesInline ==
    \E i \in 1..Len(rawProject.environments) :
        InlineProviders(rawProject.environments[i]) # <<>>

\* the fragment without its environments filter
Unfiltered(fragment) == [k \in DOMAIN fragment.m \ {"environments"} |-> fragment.m[k]]

\* C24: for a project whose environments carry inline provider fragments, the
\* resolved provider list is the raw top-level list followed by the inline
\* fragments, environment by environment and in their order within each, every
\* one of them with an environments filter that holds the name of its environment
\* and nothing else; no resolved environment has inline fragments left.
C24_InlineProvidersConverted ==
    (resolvedProject # NoResult /\ CarriesInline) =>
        LET top == Len(rawProject.providers)
            declared == rawProject.environments
        IN  /\ Len(resolvedProject.providers) = top + InlineBefore(Len(declared) + 1)
            /\ SubSeq(resolvedProject.providers, 1, top) = rawProject.providers
            /\ \A i \in 1..Len(declared) :
                  \A j \in 1..Len(InlineProviders(declared[i])) :
                      LET converted == resolvedProject.providers[top + InlineBefore(i) + j]
                      IN  /\ Unfiltered(converted) = Unfiltered(InlineProviders(declared[i])[j])
                          /\ "environments" \in DOMAIN converted.m
                          /\ converted.m.environments = Arr(<<Str(declared[i].name)>>)
            /\ Len(resolvedProject.environments) = Len(declared)
            /\ \A i \in 1..Len(declared) :
                  /\ resolvedProject.environments[i].name = declared[i].name
                  /\ resolvedProject.environments[i].providers = <<>>

\* two environments with inline fragments, one of these with a filter of its own
\* that named the other environment, behind two top-level fragments
C24_Witness ==
    /\ resolvedProject # NoResult
    /\ Len(rawProject.providers) = 2
    /\ Len(rawProject.environments) = 2
    /\ rawProject.environments[1].name = TheEnvironment
    /\ rawProject.environments[2].name = <<"n">>
    /\ InlineProviders(rawProject.environments[1]) =
           <<Obj([name |-> Str("provider-c"), environments |-> Arr(<<Str(<<"n">>)>>)])>>
    /\ Len(InlineProviders(rawProject.environments[2])) = 2
    /\ Len(resolvedProject.providers) = 5
    /\ resolvedProject.providers[3] =
           Obj([name |-> Str("provider-c"), environments |-> Arr(<<Str(TheEnvironment)>>)])

\* C26: every sub-task resolveDependencies has returned pairs a provider config
\* with the plugin registered under the config's own name, also where the
\* provider was matched through the name of a base plugin.
C26_SubTaskPluginOwnsProvider ==
    \A t \in TaskKeys :
        \A i \in 1..Len(subTasks[t]) : subTasks[t][i][2] = subTasks[t][i][1]

\* a sub-task for provider a was constructed with the plugin base
C26_BasePluginReached ==
    \E t \in tasks : <<"a", "base">> \in Range(subTasks[t])

\* resolveDependencies() has returned for the task
DependenciesReturned(t) ==
    /\ t \in tasks
    /\ stage[t] # "Pending"
    /\ ~(stage[t] = "Failed" /\ "missingProviderName" \in DOMAIN error[t])

\* the dependency names of the provider p as claimed: the explicit dependencies of
\* the plugin registered under p, then the referenced names that are not explicit
ClaimedDependencyNames(p) ==
    plugins[p].dependencies
        \o SelectSeq(templateRefs[p], LAMBDA d : d \notin Range(plugins[p].dependencies))

RECURSIVE NamesPerMatch(_)
\* every name as often as configured providers match it, in the order of the names
NamesPerMatch(names) ==
    IF names = <<>> THEN <<>>
    ELSE [i \in 1..Cardinality(MatchedBy(Head(names))) |-> Head(names)]
             \o NamesPerMatch(Tail(names))

\* C27: the dependency names a task's sub-tasks were created for are the explicit
\* dependencies of the provider's plugin followed by the distinct provider names
\* its raw config references that are not explicit, and no name occurs twice in
\* that list.
C27_DependencyNamesExplicitThenReferenced ==
    \A t \in TaskKeys :
        DependenciesReturned(t) =>
            /\ [i \in 1..Len(subTasks[t]) |-> subTasks[t][i][2]]
                   = NamesPerMatch(ClaimedDependencyNames(t[1]))
            /\ Cardinality(Range(ClaimedDependencyNames(t[1])))
                   = Len(ClaimedDependencyNames(t[1]))

\* C28: resolveDependencies never returns two sub-tasks for the same provider name.
C28_OneSubTaskPerProviderName ==
    \A t \in TaskKeys :
        \A i, j \in 1..Len(subTasks[t]) :
            subTasks[t][i][1] = subTasks[t][j][1] => i = j

\* provider a was matched by its own name and by the name of its base
C28_MatchedTwiceReached ==
    \E t \in tasks : {<<"a", "a">>, <<"a", "base">>} \subseteq Range(subTasks[t])

\* C29: every Provider process() has returned carries the project root as its
\* config's path, whatever bases the plugin has.
C29_ReturnedConfigHasPath ==
    \A t \in TaskKeys : output[t] # NoProvider => output[t].config.path

\* a plugin whose base has a config schema returned a Provider without the path
C29_PathLostReached ==
    \E t \in tasks :
        /\ stage[t] = "Ready"
        /\ t[1] = t[2]
        /\ plugins[plugins[t[2]].base].configSchema
        /\ ~output[t].config.path

\* a plugin without bases, and a plugin whose base has no config schema, returned
\* a Provider with the path
C29_PathKeptReached ==
    /\ stage[<<"b", "b">>] = "Ready" /\ output[<<"b", "b">>].config.path
    /\ stage[<<"c", "c">>] = "Ready" /\ output[<<"c", "c">>].config.path

\* ensurePrepared() has got the status handler's answer and is not waiting for the
\* prepare handler
PastPreparing(t) ==
    /\ t \in tasks
    /\ statusReturned[t] # NoStatus
    /\ stage[t] # "Preparing"

Declares(p, actionType) == actionType \in plugins[p].handlers

\* C30: a provider whose plugin declares no getEnvironmentStatus handler gets the
\* default status, ready with no detail of the plugin's, and with forceInit false
\* it reaches Ready without prepareEnvironment being invoked; a provider whose
\* status handler reports not ready and whose plugin declares no
\* prepareEnvironment handler gets the same status back from the default prepare
\* handler and fails with the not-ready PluginError.
C30_DefaultHandlers ==
    \A t \in TaskKeys :
        /\ (t \in tasks /\ statusReturned[t] # NoStatus
                /\ ~Declares(tmpProvider[t].name, "getEnvironmentStatus")) =>
              /\ statusReturned[t] = defaultEnvironmentStatus
              /\ ~forceInit =>
                    /\ stage[t] = "Ready"
                    /\ calls[t].prepareEnvironment = 0
                    /\ output[t].status = defaultEnvironmentStatus
        /\ (PastPreparing(t) /\ ~statusReturned[t].ready
                /\ ~Declares(tmpProvider[t].name, "prepareEnvironment")) =>
              /\ prepareReturned[t] = statusReturned[t]
              /\ stage[t] = "Failed"
              /\ error[t].kind = "PluginError"
              /\ error[t].name = tmpProvider[t].name
              /\ error[t].status = statusReturned[t]
              /\ output[t] = NoProvider

\* provider c, whose plugin declares no handlers, is Ready without a prepare call
C30_Witness ==
    /\ ~forceInit
    /\ stage[<<"c", "c">>] = "Ready"
    /\ calls[<<"c", "c">>].prepareEnvironment = 0
    /\ output[<<"c", "c">>].status = defaultEnvironmentStatus

\* provider b, whose plugin declares no prepare handler, reported not ready and failed
C30_WitnessNoPrepareHandler ==
    /\ stage[<<"b", "b">>] = "Failed"
    /\ ~statusReturned[<<"b", "b">>].ready
    /\ statusReturned[<<"b", "b">>] # NoStatus
    /\ calls[<<"b", "b">>].prepareEnvironment = 1
    /\ error[<<"b", "b">>].kind = "PluginError"

Ended(t) == stage[t] \in {"Ready", "Failed"}

\* C31: with a task graph that runs every task whose dependencies have completed
\* and handlers that each return or raise, the run comes to a point from which
\* on every task constructed is Ready or Failed: no task stays in an
\* intermediate stage for ever.
C31_EveryTaskEnds == <>[](\A t \in tasks : Ended(t))

\* a task waits for a sub-task list that leads back to the task itself, and no
\* other task can take a step
C31_StuckOnCycleReached ==
    /\ \E t \in tasks : stage[t] = "DependenciesResolving" /\ t \in TransitiveSubTasks(t)
    /\ \A t \in tasks :
          \/ Ended(t) /\ (stage[t] = "Ready" => resolvedProviders[t[1]] # NoProvider)
          \/ /\ stage[t] = "DependenciesResolving"
             /\ \E k \in {t} \cup TransitiveSubTasks(t) : k \in TransitiveSubTasks(k)
             /\ \A k \in Range(subTasks[t]) : stage[k] # "Failed"
             /\ \E k \in Range(subTasks[t]) : stage[k] # "Ready"

====
